---- MODULE Spec2Model ----
(***************************************************************************)
(* A model of the tiptap-lit-editor components: the refresh loop of the    *)
(* floating menus (bubble menu, table bubble menu, table controls), the    *)
(* prompt dialog, the root editor component and the menu handlers.         *)
(*                                                                         *)
(* The rich-text engine, the browser's animation-frame queue, the Lit      *)
(* update cycle and the context provider are the environment: they are     *)
(* modelled by what the components can observe of them.                    *)
(***************************************************************************)
EXTENDS Integers, Sequences, FiniteSets, TLC

(***************************************************************************)
(* Program constants                                                       *)
(***************************************************************************)
\* `_updateFrame: number | null = null`: null and 0 are both falsy in
\* `if (this._updateFrame)`; requestAnimationFrame returns ids >= 1.
NoFrame == 0
\* `editor: null` in the context value; engines are numbered from 1.
NoEditor == 0
\* `_updateThrottle = 50`
updateThrottle == 50
\* `_lastUpdateTime = 0`
InitialLastUpdateTime == 0

(***************************************************************************)
(* Bounds of the model                                                     *)
(***************************************************************************)
\* animation frames one component may request in a run
MaxFrames == 4
\* Date.now() at the start of a run, its step and its last value
StartClock == 100
ClockStep == 25
MaxClock == 150

(***************************************************************************)
(* State                                                                   *)
(***************************************************************************)
VARIABLES
    \* ---- a floating menu component that runs a refresh loop
    kind,            \* which component: "bubble", "tableBubble", "tableControls"
    isConnected,     \* Node.isConnected of the component
    hasUpdated,      \* Lit: the first update (render, firstUpdated) has run
    updatePending,   \* Lit: an update was requested and has not run yet
    editorContext,   \* the consumed _editorContext: [editor, editorElement]
    provided,        \* the value the context provider currently publishes
    updateFrame,     \* _updateFrame
    pendingFrames,   \* frame callbacks of this component the browser still holds
    nextFrameId,     \* the id the next requestAnimationFrame returns
    lastUpdateTime,  \* _lastUpdateTime
    now,             \* Date.now()
    layoutVisible,   \* offsetParent !== null and display is not none
    thrown,          \* a handler of the component threw
    lastOp,          \* the handler of the component that ran last (history)
    \* ---- what the engine reports to the menus
    active,          \* names n for which editor.isActive(n) is true
    dom,             \* DOM around the selection anchor: [chain, rowIndex, cellIndex]
    \* ---- derived state of the menus
    bm,              \* BubbleMenu: [isInList, isInHeading]
    tc,              \* TableControls: [isInTable, cellPosition, tablePosition,
                     \*   showColumnMenu, showRowMenu, isFirstRow, isFirstColumn]
    recomputed,      \* when the derived state was last recomputed from the
                     \*   engine, and the time before: [at, prev], and the
                     \*   same for the refresh loop alone: [loopAt, loopPrev]
                     \*   (history)
    \* ---- commands the menus issue to the engine, and the link at the selection
    cmdLog,          \* the chains run by menu handlers, oldest first
    linkHref,        \* editor.getAttributes('link').href, "" without a link
    \* ---- the prompt dialog
    dialogInstance,  \* the module-level singleton exists
    dialogsAppended, \* prompt dialog elements appended to document.body
    pd,              \* PromptDialog: [open, message, defaultValue, inputValue,
                     \*   resolve, updatePending, showRequested] and, of the
                     \*   queued 'close' event, [closeBy, closeAfter] (history)
    dialogOpen,      \* the native <dialog> is open (modal)
    closeEvents,     \* 'close' events of the <dialog> queued and not yet delivered
    requests,        \* the prompt() calls so far: [message, defaultValue, then,
                     \*   currentUrl, result]
    typed,           \* what the user typed since the last prompt() call (history)
    \* ---- the menus without a refresh loop
    fm,              \* FloatingMenu: [visible, pos]
    hd,              \* HeadingDropdown: [open, mode, insertPos]
    sl,              \* the slash command's renderer closure and its SlashMenu
    \* ---- the root editor component
    root             \* the fields of TipTapEditor / BaseEditor, its Lit update
                     \*   state, its engines and the callbacks it has scheduled

loopVars == <<kind, isConnected, hasUpdated, updatePending, editorContext, provided,
              updateFrame, pendingFrames, nextFrameId, lastUpdateTime, now,
              layoutVisible, thrown, lastOp>>
engineViewVars == <<active, dom>>
derivedVars == <<bm, tc, recomputed>>

commandVars == <<cmdLog, linkHref>>
promptVars == <<dialogInstance, dialogsAppended, pd, dialogOpen, closeEvents,
                requests, typed>>

menuVars == <<fm, hd, sl>>

vars == <<loopVars, engineViewVars, derivedVars, commandVars, promptVars, menuVars,
          root>>

\* everything outside the floating menu component and what it reads
outsideLoop == <<commandVars, promptVars, menuVars, root>>

(***************************************************************************)
(* The environment's values                                                *)
(***************************************************************************)
LoopKinds == {"bubble", "tableBubble", "tableControls"}

\* EditorContextValue: { editor, editorElement }
NoContext == [editor |-> NoEditor, editorElement |-> FALSE]
ProvidedValues ==
    { NoContext,
      [editor |-> 1, editorElement |-> TRUE],
      [editor |-> 1, editorElement |-> FALSE] }

\* What the engine can report about the selection: the active node names and
\* the DOM around the selection anchor. chain: the tag names from the node at
\* the anchor up to, not including, the editor element.
EngineViews ==
    { [active |-> {}, dom |-> [chain |-> <<"P">>, rowIndex |-> 0, cellIndex |-> 0]],
      [active |-> {"bulletList"},
       dom |-> [chain |-> <<"P", "LI", "UL">>, rowIndex |-> 0, cellIndex |-> 0]],
      [active |-> {"heading"},
       dom |-> [chain |-> <<"H1">>, rowIndex |-> 0, cellIndex |-> 0]],
      [active |-> {"table"},
       dom |-> [chain |-> <<"P", "TH", "TR", "TBODY", "TABLE">>,
                rowIndex |-> 0, cellIndex |-> 0]],
      [active |-> {"table"},
       dom |-> [chain |-> <<"P", "TD", "TR", "TBODY", "TABLE">>,
                rowIndex |-> 1, cellIndex |-> 1]],
      [active |-> {"table"},
       dom |-> [chain |-> <<"TR", "TBODY", "TABLE">>, rowIndex |-> 0, cellIndex |-> 0]] }

(***************************************************************************)
(* Engine queries used by the menus                                        *)
(***************************************************************************)
\* editor.isActive(name), for a non-null editor
IsActive(act, name) == name \in act

(***************************************************************************)
(* The refresh loop shared by BubbleMenu, TableBubbleMenu and TableControls*)
(***************************************************************************)
LoopState ==
    [updateFrame |-> updateFrame, pendingFrames |-> pendingFrames,
     nextFrameId |-> nextFrameId]

\* the loop fields after a handler; a run requests at most MaxFrames frames
SetLoop(L) ==
    /\ L.nextFrameId <= MaxFrames + 1
    /\ updateFrame' = L.updateFrame
    /\ pendingFrames' = L.pendingFrames
    /\ nextFrameId' = L.nextFrameId

\* cancelAnimationFrame(id): a no-op for an id that is not pending
CancelAnimationFrame(L, id) == [L EXCEPT !.pendingFrames = @ \ {id}]

\* this._updateFrame = requestAnimationFrame(updateLoop)
RequestAnimationFrame(L) ==
    [updateFrame |-> L.nextFrameId,
     pendingFrames |-> L.pendingFrames \cup {L.nextFrameId},
     nextFrameId |-> L.nextFrameId + 1]

\* _cleanupEditorUpdates
CleanupEditorUpdates(L) ==
    IF L.updateFrame # NoFrame
    THEN [CancelAnimationFrame(L, L.updateFrame) EXCEPT !.updateFrame = NoFrame]
    ELSE L

\* _setupEditorUpdates without its first line: the old frame is not cancelled
SetupWithoutCleanup(editor, L) ==
    IF editor = NoEditor THEN L ELSE RequestAnimationFrame(L)

\* _setupEditorUpdates, up to the first frame request
SetupEditorUpdates(editor, L) ==
    LET C == CleanupEditorUpdates(L)
    IN  IF editor = NoEditor THEN C ELSE RequestAnimationFrame(C)

\* updated(): re-setup when the context holds an editor
Updated(editor, L) ==
    IF editor # NoEditor THEN SetupEditorUpdates(editor, L) ELSE L

\* firstUpdated(): the click listener is added and the loop set up
FirstUpdated(editor, L) == SetupEditorUpdates(editor, L)

(***************************************************************************)
(* Derived state                                                           *)
(***************************************************************************)
\* BubbleMenu._updateButtonStates
UpdateButtonStates(editor, act, b) ==
    IF editor = NoEditor THEN b
    ELSE [isInList |-> IsActive(act, "bulletList") \/ IsActive(act, "orderedList"),
          isInHeading |-> IsActive(act, "heading")]

\* no recomputation yet
NotYet == -1
NeverRecomputed ==
    [at |-> NotYet, prev |-> NotYet, loopAt |-> NotYet, loopPrev |-> NotYet]

\* _updateButtonStates / _updatePosition ran at time t, called by the refresh
\* loop ("loop") or by another handler
RecomputedBy(r, who, t) ==
    [at |-> t, prev |-> r.at,
     loopAt |-> IF who = "loop" THEN t ELSE r.loopAt,
     loopPrev |-> IF who = "loop" THEN r.loopAt ELSE r.loopPrev]

\* a loop that recomputes on every frame
DueAlways(t, last) == TRUE

\* `now - this._lastUpdateTime >= this._updateThrottle`
Due(t, last) == (t - last) >= updateThrottle

\* a loop that does not look at the component's visibility
LoopRecomputesHidden(visible, t, last) == Due(t, last)

\* `isVisible && (now - this._lastUpdateTime) >= this._updateThrottle`
LoopRecomputes(visible, t, last) == visible /\ Due(t, last)

\* a null _cellPosition / _tablePosition
NoPosition == <<>>

\* The ancestor walk of TableControls._updatePosition from chain[i] upwards:
\* the last TD/TH seen before the first TABLE, and whether a TABLE was met.
RECURSIVE WalkUp(_, _, _)
WalkUp(chain, i, cellNode) ==
    IF i > Len(chain) THEN [cellNode |-> cellNode, tableNode |-> FALSE]
    ELSE LET cell == IF chain[i] \in {"TD", "TH"} THEN TRUE ELSE cellNode
         IN  IF chain[i] = "TABLE" THEN [cellNode |-> cell, tableNode |-> TRUE]
             ELSE WalkUp(chain, i + 1, cell)

\* TableControls._updatePosition; geometry is kept as the cell's grid place
UpdatePosition(ctx, act, d, t) ==
    IF ctx.editor = NoEditor \/ ~ctx.editorElement
    THEN [t EXCEPT !.isInTable = FALSE]
    ELSE IF ~IsActive(act, "table")
    THEN [t EXCEPT !.isInTable = FALSE, !.cellPosition = NoPosition,
                   !.tablePosition = NoPosition,
                   !.showColumnMenu = FALSE, !.showRowMenu = FALSE]
    ELSE LET w == WalkUp(d.chain, 1, FALSE)
         IN  IF ~w.cellNode \/ ~w.tableNode
             THEN [t EXCEPT !.isInTable = FALSE]
             ELSE [t EXCEPT !.isInTable = TRUE,
                            !.isFirstRow = (d.rowIndex = 0),
                            !.isFirstColumn = (d.cellIndex = 0),
                            !.cellPosition = <<d.rowIndex, d.cellIndex>>,
                            !.tablePosition = <<0, 0>>]

\* Lit requests an update when a @state field is assigned a value that is not
\* identical to the old one; _updatePosition assigns fresh position objects.
StateChanged(old, new) ==
    \/ old # new
    \/ (new.isInTable /\ new.cellPosition # NoPosition)

\* a call of a method of the engine on a null handle is a TypeError
CallThrows(editor) == editor = NoEditor

(***************************************************************************)
(* Lifecycle of a floating menu component                                  *)
(***************************************************************************)
\* connectedCallback: Lit's consumer asks the provider for the context (the
\* value arrives synchronously and requests an update), then the loop is set up
ConnectedCallback ==
    /\ ~isConnected
    /\ isConnected' = TRUE
    /\ editorContext' = provided
    /\ updatePending' = TRUE
    /\ SetLoop(SetupEditorUpdates(provided.editor, LoopState))
    /\ lastOp' = "connectedCallback"
    /\ UNCHANGED <<kind, hasUpdated, provided, lastUpdateTime, now, layoutVisible,
                   thrown, engineViewVars, derivedVars>>
    /\ UNCHANGED outsideLoop

\* disconnectedCallback: the consumer unsubscribes and keeps its last value
DisconnectedCallback ==
    /\ isConnected
    /\ isConnected' = FALSE
    /\ SetLoop(CleanupEditorUpdates(LoopState))
    /\ lastOp' = "disconnectedCallback"
    /\ UNCHANGED <<kind, hasUpdated, updatePending, editorContext, provided,
                   lastUpdateTime, now, layoutVisible, thrown, engineViewVars,
                   derivedVars>>
    /\ UNCHANGED outsideLoop

\* Lit's update cycle: firstUpdated() on the first update, updated() on every
\* update. An update that was requested runs whether or not the element is
\* still connected.
PerformUpdate ==
    /\ updatePending
    /\ updatePending' = FALSE
    /\ hasUpdated' = TRUE
    /\ LET first == IF hasUpdated THEN LoopState
                    ELSE FirstUpdated(editorContext.editor, LoopState)
       IN  SetLoop(Updated(editorContext.editor, first))
    /\ lastOp' = "updated"
    /\ UNCHANGED <<kind, isConnected, editorContext, provided, lastUpdateTime, now,
                   layoutVisible, thrown, engineViewVars, derivedVars>>
    /\ UNCHANGED outsideLoop

\* The provider publishes a value; a connected (subscribed) consumer receives
\* it and requests an update.
ContextProvided(v) ==
    /\ v # provided
    /\ provided' = v
    /\ editorContext' = IF isConnected THEN v ELSE editorContext
    /\ updatePending' = (updatePending \/ isConnected)
    /\ lastOp' = "contextProvided"
    /\ UNCHANGED <<kind, isConnected, hasUpdated, updateFrame, pendingFrames,
                   nextFrameId, lastUpdateTime, now, layoutVisible, thrown,
                   engineViewVars, derivedVars>>
    /\ UNCHANGED outsideLoop

(***************************************************************************)
(* The frame callback updateLoop of each component; f is the frame the     *)
(* browser runs                                                            *)
(***************************************************************************)
\* BubbleMenu updateLoop without the isConnected test
BubbleUpdateLoopIgnoringDetach(f) ==
    /\ kind = "bubble"
    /\ f \in pendingFrames
    /\ lastOp' = "updateLoop"
    /\ LET fired == CancelAnimationFrame(LoopState, f)
           editor == editorContext.editor
       IN  IF editor # NoEditor
           THEN LET recompute == LoopRecomputes(layoutVisible, now, lastUpdateTime)
                    b == UpdateButtonStates(editor, active, bm)
                IN  /\ bm' = IF recompute THEN b ELSE bm
                    /\ recomputed' = IF recompute
                                     THEN RecomputedBy(recomputed, "loop", now)
                                     ELSE recomputed
                    /\ lastUpdateTime' = IF recompute THEN now ELSE lastUpdateTime
                    /\ updatePending' = (updatePending \/ (recompute /\ b # bm))
                    /\ thrown' = (thrown \/ (recompute /\ CallThrows(editor)))
                    /\ SetLoop(RequestAnimationFrame(fired))
           ELSE /\ SetLoop(CleanupEditorUpdates(fired))
                /\ UNCHANGED <<bm, recomputed, lastUpdateTime, updatePending, thrown>>
    /\ UNCHANGED <<kind, isConnected, hasUpdated, editorContext, provided, now,
                   layoutVisible, engineViewVars, tc>>
    /\ UNCHANGED outsideLoop

\* BubbleMenu updateLoop
BubbleUpdateLoop(f) ==
    /\ kind = "bubble"
    /\ f \in pendingFrames
    /\ lastOp' = "updateLoop"
    /\ LET fired == CancelAnimationFrame(LoopState, f)
           editor == editorContext.editor
       IN  IF editor # NoEditor /\ isConnected
           THEN LET recompute == LoopRecomputes(layoutVisible, now, lastUpdateTime)
                    b == UpdateButtonStates(editor, active, bm)
                IN  /\ bm' = IF recompute THEN b ELSE bm
                    /\ recomputed' = IF recompute
                                     THEN RecomputedBy(recomputed, "loop", now)
                                     ELSE recomputed
                    /\ lastUpdateTime' = IF recompute THEN now ELSE lastUpdateTime
                    /\ updatePending' = (updatePending \/ (recompute /\ b # bm))
                    /\ thrown' = (thrown \/ (recompute /\ CallThrows(editor)))
                    /\ SetLoop(RequestAnimationFrame(fired))
           ELSE /\ SetLoop(CleanupEditorUpdates(fired))
                /\ UNCHANGED <<bm, recomputed, lastUpdateTime, updatePending, thrown>>
    /\ UNCHANGED <<kind, isConnected, hasUpdated, editorContext, provided, now,
                   layoutVisible, engineViewVars, tc>>
    /\ UNCHANGED outsideLoop

\* TableBubbleMenu updateLoop: a due tick only requests a re-render
TableBubbleUpdateLoop(f) ==
    /\ kind = "tableBubble"
    /\ f \in pendingFrames
    /\ lastOp' = "updateLoop"
    /\ LET fired == CancelAnimationFrame(LoopState, f)
           editor == editorContext.editor
       IN  IF editor # NoEditor /\ isConnected
           THEN LET recompute == LoopRecomputes(layoutVisible, now, lastUpdateTime)
                IN  /\ lastUpdateTime' = IF recompute THEN now ELSE lastUpdateTime
                    /\ updatePending' = (updatePending \/ recompute)
                    /\ SetLoop(RequestAnimationFrame(fired))
           ELSE /\ SetLoop(CleanupEditorUpdates(fired))
                /\ UNCHANGED <<lastUpdateTime, updatePending>>
    /\ UNCHANGED <<kind, isConnected, hasUpdated, editorContext, provided, now,
                   layoutVisible, thrown, engineViewVars, derivedVars>>
    /\ UNCHANGED outsideLoop

\* TableControls updateLoop: no visibility test
TableControlsUpdateLoop(f) ==
    /\ kind = "tableControls"
    /\ f \in pendingFrames
    /\ lastOp' = "updateLoop"
    /\ LET fired == CancelAnimationFrame(LoopState, f)
           editor == editorContext.editor
       IN  IF editor # NoEditor /\ isConnected
           THEN LET recompute == Due(now, lastUpdateTime)
                    t == UpdatePosition(editorContext, active, dom, tc)
                IN  /\ tc' = IF recompute THEN t ELSE tc
                    /\ recomputed' = IF recompute
                                     THEN RecomputedBy(recomputed, "loop", now)
                                     ELSE recomputed
                    /\ lastUpdateTime' = IF recompute THEN now ELSE lastUpdateTime
                    /\ updatePending' =
                           (updatePending \/ (recompute /\ StateChanged(tc, t)))
                    /\ SetLoop(RequestAnimationFrame(fired))
           ELSE /\ SetLoop(CleanupEditorUpdates(fired))
                /\ UNCHANGED <<tc, recomputed, lastUpdateTime, updatePending>>
    /\ UNCHANGED <<kind, isConnected, hasUpdated, editorContext, provided, now,
                   layoutVisible, thrown, engineViewVars, bm>>
    /\ UNCHANGED outsideLoop

(***************************************************************************)
(* Environment of the loop                                                 *)
(***************************************************************************)
\* time passes
AdvanceClock ==
    /\ now + ClockStep <= MaxClock
    /\ now' = now + ClockStep
    /\ UNCHANGED <<lastOp, kind, isConnected, hasUpdated, updatePending, editorContext,
                   provided, updateFrame, pendingFrames, nextFrameId, lastUpdateTime,
                   layoutVisible, thrown, engineViewVars, derivedVars>>
    /\ UNCHANGED outsideLoop

\* the element gets or loses its layout box (the engine's menu plugin shows
\* and hides it)
LayoutChange ==
    /\ layoutVisible' = ~layoutVisible
    /\ UNCHANGED <<lastOp, kind, isConnected, hasUpdated, updatePending, editorContext,
                   provided, updateFrame, pendingFrames, nextFrameId, lastUpdateTime,
                   now, thrown, engineViewVars, derivedVars>>
    /\ UNCHANGED outsideLoop

\* the selection moves: the engine answers its queries differently
EngineChange(e) ==
    /\ <<e.active, e.dom>> # <<active, dom>>
    /\ active' = e.active
    /\ dom' = e.dom
    /\ UNCHANGED <<lastOp, kind, isConnected, hasUpdated, updatePending, editorContext,
                   provided, updateFrame, pendingFrames, nextFrameId, lastUpdateTime,
                   now, layoutVisible, thrown, derivedVars>>
    /\ UNCHANGED outsideLoop

(***************************************************************************)
(* Specification of one floating menu component and its refresh loop       *)
(***************************************************************************)
\* `_resolve = null`; requests are numbered from 1
NoRequest == 0
\* a promise that is not settled, and the value null it may be resolved with
Unresolved == "<pending>"
NullResult == "<null>"
\* nothing typed since prompt() filled the field
NothingTyped == "<nothing>"

(***************************************************************************)
(* The root editor component: values                                       *)
(***************************************************************************)
\* the two implementations of the root component
Variants == {"TipTapEditor", "BaseEditor"}

\* Documents of the engine, named by their text, and their two serialisations.
Docs == {"", "a"}
GetHTML(doc) == "<p>" \o doc \o "</p>"
GetMarkdown(doc) == doc

\* values of the `content` property: the default, and an HTML paragraph
Contents == {"", "<p>a</p>"}

\* setContent / the constructor's content option: both parsers read a text as
\* a paragraph and an HTML paragraph as that paragraph
ParseContent(c, contentType) ==
    IF c \in Docs THEN c ELSE CHOOSE doc \in Docs : GetHTML(doc) = c

\* a call of a method the engine does not have
TypeError == "<TypeError>"

\* this.markdown ? editor.getMarkdown() : editor.getHTML(); getMarkdown exists
\* only on an engine built with the Markdown extension
Serialised(engine, md) ==
    IF md
    THEN IF engine.markdownExtension THEN GetMarkdown(engine.doc) ELSE TypeError
    ELSE GetHTML(engine.doc)

\* selections [from, to] of a document; selection.empty is from = to
Selections == {<<0, 0>>, <<0, 1>>, <<1, 1>>}
SelectionEmpty(sel) == sel[1] = sel[2]

\* a shouldShow that looks at the selection only, in both implementations
ShouldShowSelectionOnly(variant, sel, dragging) == ~SelectionEmpty(sel)

\* the shouldShow option each implementation passes to the bubble menu plugin
ShouldShow(variant, sel, dragging) ==
    IF variant = "BaseEditor"
    THEN IF dragging THEN FALSE
         ELSE IF SelectionEmpty(sel) \/ sel[1] = sel[2] THEN FALSE
         ELSE TRUE
    ELSE ~SelectionEmpty(sel)

\* the plugin shows or hides the menu element after a view update
PluginUpdate(R) ==
    [R EXCEPT !.visibility =
        IF ShouldShow(R.variant, R.selection, R.dragging) THEN "visible"
        ELSE "hidden"]

\* a root component after its constructor, with its properties set
NewRoot(variant, content, markdown) ==
    [variant |-> variant,
     isConnected |-> FALSE,
     updatingEnabled |-> FALSE,     \* Lit: connected at least once
     hasUpdated |-> FALSE,
     isUpdatePending |-> TRUE,      \* Lit requests the first update itself
     contentChanged |-> TRUE,       \* changedProperties.has('content')
     content |-> content,
     markdown |-> markdown,
     editedContent |-> "",
     editor |-> NoEditor,           \* _editor: an index of engines, or NoEditor
     engines |-> <<>>,              \* every engine created: [live, markdownExtension, doc]
     editorContext |-> NoContext,   \* the context value the root provides
     isInitializing |-> FALSE,
     frames |-> <<>>,               \* requestAnimationFrame callbacks, in order
     timers |-> 0,                  \* setTimeout(..., 200) callbacks outstanding
     container |-> FALSE,           \* tiptap-bubble-menu is in the shadow root
     selection |-> <<0, 0>>,
     dragging |-> FALSE,            \* view.dragging
     visibility |-> "hidden",       \* of the bubble menu element
     dispatched |-> <<>>,           \* detail.content of the content-changed events
                                    \*   the handler that ran last dispatched
     thrown |-> FALSE]              \* the handler that ran last threw

\* a root component that was constructed and never attached
InitRootIdle == root = NewRoot("TipTapEditor", "", FALSE)

\* no menu has issued a command; the selection carries no link
InitCommands ==
    /\ cmdLog = <<>>
    /\ linkHref = ""

\* a prompt dialog element after its constructor; variant "native" is
\* prompt-dialog.ts, variant "vaadin" the dialog built on vaadin-dialog
NewPromptDialog(variant) ==
    [variant |-> variant, open |-> FALSE, message |-> "", defaultValue |-> "",
     inputValue |-> "",
     tempInputValue |-> "",         \* _tempInputValue of the vaadin variant
     handlers |-> <<>>,             \* listeners of one event still to run (vaadin)
     resolve |-> NoRequest, updatePending |-> FALSE, showRequested |-> FALSE,
     closeBy |-> "", closeAfter |-> 0]

\* prompt-dialog.ts before the first showPrompt call
InitPrompt ==
    /\ dialogInstance = FALSE
    /\ dialogsAppended = 0
    /\ pd = NewPromptDialog("native")
    /\ dialogOpen = FALSE
    /\ closeEvents = 0
    /\ requests = <<>>
    /\ typed = NothingTyped

\* `pos: number | null = null`, `insertPos: number | null = null`
NoPos == -1

\* a heading dropdown after its constructor, and the one the floating menu
\* has rendered (mode="insert", .insertPos = pos = null)
StandaloneDropdown == [open |-> FALSE, mode |-> "toggle", insertPos |-> NoPos]
EmbeddedDropdown == [open |-> FALSE, mode |-> "insert", insertPos |-> NoPos]

\* the @state fields of TableControls after its constructor
NoTable ==
    [isInTable |-> FALSE, cellPosition |-> NoPosition,
     tablePosition |-> NoPosition, showColumnMenu |-> FALSE,
     showRowMenu |-> FALSE, isFirstRow |-> FALSE, isFirstColumn |-> FALSE]

(***************************************************************************)
(* The slash command's block-type catalog                                  *)
(***************************************************************************)
\* a string is the sequence of its characters; the letters, for toLowerCase
UpperCase == <<"A", "B", "C", "D", "E", "F", "G", "H", "I", "J", "K", "L", "M",
               "N", "O", "P", "Q", "R", "S", "T", "U", "V", "W", "X", "Y", "Z">>
LowerCase == <<"a", "b", "c", "d", "e", "f", "g", "h", "i", "j", "k", "l", "m",
               "n", "o", "p", "q", "r", "s", "t", "u", "v", "w", "x", "y", "z">>

\* interface BlockTypeItem: the label and the chain its command runs after
\* deleteRange(range)
BlockTypeItem(label, name, arg) ==
    [label |-> label, command |-> [name |-> name, arg |-> arg]]

HeadingLabel(level) == <<"H", "e", "a", "d", "i", "n", "g", " ", ToString(level)>>

BLOCK_TYPES ==
    << BlockTypeItem(<<"T", "e", "x", "t">>, "setParagraph", ""),
       BlockTypeItem(HeadingLabel(1), "setHeading", "1"),
       BlockTypeItem(HeadingLabel(2), "setHeading", "2"),
       BlockTypeItem(HeadingLabel(3), "setHeading", "3"),
       BlockTypeItem(HeadingLabel(4), "setHeading", "4"),
       BlockTypeItem(HeadingLabel(5), "setHeading", "5"),
       BlockTypeItem(HeadingLabel(6), "setHeading", "6"),
       BlockTypeItem(<<"B", "u", "l", "l", "e", "t", " ", "L", "i", "s", "t">>,
                     "toggleBulletList", ""),
       BlockTypeItem(<<"N", "u", "m", "b", "e", "r", "e", "d", " ",
                       "L", "i", "s", "t">>, "toggleOrderedList", ""),
       BlockTypeItem(<<"C", "o", "d", "e", " ", "B", "l", "o", "c", "k">>,
                     "toggleCodeBlock", "") >>

\* the closure of the suggestion renderer and the SlashMenu it renders, with
\* no suggestion session: `component = null`, `popup = null`
NoSlash ==
    [active |-> FALSE,          \* a suggestion session is running
     query |-> <<>>,            \* the text typed after the "/"
     popup |-> FALSE,           \* `popup` is a div attached to the body
     component |-> FALSE,       \* `component` names a SlashMenu
     items |-> <<>>,            \* SlashMenu.items
     itemsChanged |-> FALSE,    \* SlashMenu: an update for `items` is pending
     selectedIndex |-> 0,       \* SlashMenu.selectedIndex
     escaped |-> FALSE,         \* Escape was pressed in this session (history)
     handled |-> FALSE,         \* what the last onKeyDown returned (history)
     catalog |-> BLOCK_TYPES]   \* the module's BLOCK_TYPES array

InitMenuState ==
    /\ fm = [visible |-> FALSE, pos |-> NoPos]
    /\ hd = StandaloneDropdown
    /\ sl = NoSlash
    /\ bm = [isInList |-> FALSE, isInHeading |-> FALSE]
    /\ recomputed = NeverRecomputed
    /\ tc = NoTable

InitLoop ==
    /\ kind \in LoopKinds
    /\ isConnected = FALSE
    /\ hasUpdated = FALSE
    /\ updatePending = FALSE
    /\ editorContext = NoContext
    /\ provided = NoContext
    /\ updateFrame = NoFrame
    /\ pendingFrames = {}
    /\ nextFrameId = 1
    /\ lastUpdateTime = InitialLastUpdateTime
    /\ now = StartClock
    /\ layoutVisible = FALSE
    /\ thrown = FALSE
    /\ lastOp = "constructor"
    /\ InitRootIdle
    /\ active = {}
    /\ dom = [chain |-> <<"P">>, rowIndex |-> 0, cellIndex |-> 0]
    /\ InitMenuState
    /\ InitCommands
    /\ InitPrompt

NextLoop ==
    \/ ConnectedCallback
    \/ DisconnectedCallback
    \/ PerformUpdate
    \/ \E v \in ProvidedValues : ContextProvided(v)
    \/ \E f \in pendingFrames : BubbleUpdateLoop(f)
    \/ \E f \in pendingFrames : TableBubbleUpdateLoop(f)
    \/ \E f \in pendingFrames : TableControlsUpdateLoop(f)
    \/ AdvanceClock
    \/ LayoutChange
    \/ \E e \in EngineViews : EngineChange(e)

SpecLoop == InitLoop /\ [][NextLoop]_vars

\* The browser runs every frame callback it was asked for, and Lit performs
\* every update that was requested.
FrameCallback ==
    \E f \in pendingFrames :
        BubbleUpdateLoop(f) \/ TableBubbleUpdateLoop(f) \/ TableControlsUpdateLoop(f)

FairSpecLoop == SpecLoop /\ WF_vars(FrameCallback) /\ WF_vars(PerformUpdate)

(***************************************************************************)
(* Claims about the refresh loop                                           *)
(***************************************************************************)
\* C1: over every sequence of attach, detach, first render, context update
\* and frame callback, the component owns at most one pending frame callback,
\* and a pending callback is the one whose id _updateFrame stores (every
\* setup cancelled the frame scheduled before it).
C1_AtMostOnePendingFrame ==
    /\ Cardinality(pendingFrames) <= 1
    /\ pendingFrames \subseteq {updateFrame}

\* a setup call ran while an earlier frame was still scheduled, and one frame
\* is pending after it
C1_Witness ==
    /\ lastOp = "updated"
    /\ nextFrameId >= 3
    /\ Cardinality(pendingFrames) = 1

\* a step that runs a frame callback while the component is detached or its
\* engine handle is null
InertTick ==
    /\ lastOp' = "updateLoop"
    /\ pendingFrames' # pendingFrames
    /\ (~isConnected \/ editorContext.editor = NoEditor)

\* C2: a frame callback that runs while the component is detached or its
\* engine handle is null recomputes nothing, schedules no frame, clears the
\* stored frame id and does not throw; and if the component stays detached
\* from some point on, then from some point on it has no pending frame.
C2_InertTickAndQuiescence ==
    /\ [][InertTick =>
            /\ bm' = bm /\ tc' = tc /\ lastUpdateTime' = lastUpdateTime
            /\ updatePending' = updatePending
            /\ nextFrameId' = nextFrameId
            /\ pendingFrames' \subseteq pendingFrames
            /\ updateFrame' = NoFrame
            /\ thrown' = thrown /\ ~thrown']_vars
    /\ (<>[](~isConnected) => <>[](pendingFrames = {}))

\* a frame callback has just run on a detached component that had re-armed
\* its loop after the detach
C2_Witness ==
    /\ lastOp = "updateLoop"
    /\ ~isConnected
    /\ editorContext.editor # NoEditor
    /\ updateFrame = NoFrame
    /\ pendingFrames = {}

(***************************************************************************)
(* The engine's commands                                                   *)
(***************************************************************************)
\* bounds: prompt() calls and engine commands in a run
MaxRequests == 2
MaxCommands == 1

Urls == {"https://x", "https://y"}
\* what the input field of the dialog can hold
InputValues == Urls \cup {""}

NoCommand == [name |-> "none", arg |-> ""]
Command(name, arg) == [name |-> name, arg |-> arg]

\* editor.chain().focus().<command>().run(): the node names active afterwards
ToggleActive(act, cmd) ==
    CASE cmd = "bold" -> IF "bold" \in act THEN act \ {"bold"} ELSE act \cup {"bold"}
      [] cmd = "italic" ->
            IF "italic" \in act THEN act \ {"italic"} ELSE act \cup {"italic"}
      [] cmd = "bulletList" ->
            IF "bulletList" \in act THEN act \ {"bulletList"}
            ELSE (act \ {"orderedList"}) \cup {"bulletList"}
      [] cmd = "orderedList" ->
            IF "orderedList" \in act THEN act \ {"orderedList"}
            ELSE (act \ {"bulletList"}) \cup {"orderedList"}
      [] OTHER -> act

\* the link at the selection after a command
LinkAfter(href, c) ==
    CASE c.name = "setLink" -> c.arg
      [] c.name = "unsetLink" -> ""
      [] OTHER -> href

\* the log after a handler that issued c (or nothing)
Logged(log, c) == IF c = NoCommand THEN log ELSE Append(log, c)

(***************************************************************************)
(* PromptDialog (native <dialog>) and showPrompt                           *)
(***************************************************************************)
\* `this._inputValue || null`
OrNull(v) == IF v = "" THEN NullResult ELSE v

\* the callback BubbleMenu._handleClick attaches to the promise of showPrompt:
\* the command it runs when the request `req` settles with `value`
\* a link callback that removes the link on every empty value, whether or
\* not the click found one
ThenCommandUnsetsAlways(req, value, editor) ==
    IF editor = NoEditor THEN NoCommand
    ELSE IF req.then = "link"
    THEN IF value # NullResult /\ value # "" THEN Command("setLink", value)
         ELSE Command("unsetLink", "")
    ELSE IF req.then = "image"
    THEN IF value # NullResult /\ value # "" THEN Command("setImage", value)
         ELSE NoCommand
    ELSE NoCommand

ThenCommand(req, value, editor) ==
    IF editor = NoEditor THEN NoCommand
    ELSE IF req.then = "link"
    THEN IF value # NullResult /\ value # "" THEN Command("setLink", value)
         ELSE IF req.currentUrl # "" THEN Command("unsetLink", "")
         ELSE NoCommand
    ELSE IF req.then = "image"
    THEN IF value # NullResult /\ value # "" THEN Command("setImage", value)
         ELSE NoCommand
    ELSE NoCommand

\* this._resolve(value); this._resolve = null -- and the promise's callback,
\* which runs before any other event is handled
ResolveWith(value) ==
    IF pd.resolve # NoRequest
    THEN LET c == ThenCommand(requests[pd.resolve], value, editorContext.editor)
         IN  /\ requests' = [requests EXCEPT ![pd.resolve].result = value]
             /\ cmdLog' = Logged(cmdLog, c)
             /\ Len(cmdLog') <= MaxCommands
             /\ linkHref' = LinkAfter(linkHref, c)
    ELSE UNCHANGED <<requests, cmdLog, linkHref>>

\* a showPrompt that creates and appends an element on every call
ShowPromptAlwaysAppends(instance, appended) == appended + 1

\* showPrompt: `if (!dialogInstance)` an element is created and appended to
\* document.body; the number of prompt dialog elements in the document after
ShowPromptAppended(instance, appended) ==
    IF instance THEN appended ELSE appended + 1

\* a prompt() that settles the pending request with null before replacing it
PromptSettlingPending(message, defaultValue, then, currentUrl) ==
    /\ Len(requests) < MaxRequests
    /\ dialogInstance' = TRUE
    /\ dialogsAppended' = ShowPromptAppended(dialogInstance, dialogsAppended)
    /\ requests' = Append(IF pd.resolve # NoRequest
                          THEN [requests EXCEPT ![pd.resolve].result = NullResult]
                          ELSE requests,
                          [message |-> message, defaultValue |-> defaultValue,
                           then |-> then, currentUrl |-> currentUrl,
                           result |-> Unresolved])
    /\ pd' = [pd EXCEPT !.message = message, !.defaultValue = defaultValue,
                        !.inputValue = defaultValue,
                        !.resolve = Len(requests) + 1, !.open = TRUE,
                        !.updatePending = TRUE, !.showRequested = TRUE]
    /\ typed' = NothingTyped

\* PromptDialog.prompt, called through showPrompt by a caller `then`
Prompt(message, defaultValue, then, currentUrl) ==
    /\ pd.variant = "native"
    /\ Len(requests) < MaxRequests
    /\ dialogInstance' = TRUE
    /\ dialogsAppended' = ShowPromptAppended(dialogInstance, dialogsAppended)
    /\ requests' = Append(requests,
                          [message |-> message, defaultValue |-> defaultValue,
                           then |-> then, currentUrl |-> currentUrl,
                           result |-> Unresolved])
    /\ pd' = [pd EXCEPT !.message = message, !.defaultValue = defaultValue,
                        !.inputValue = defaultValue,
                        !.resolve = Len(requests) + 1, !.open = TRUE,
                        !.updatePending = TRUE, !.showRequested = TRUE]
    /\ typed' = NothingTyped

\* Lit requests an update of the dialog when a @state field changes value
StateAssigned(old, new) ==
    [new EXCEPT !.updatePending =
        (old.updatePending
         \/ <<old.open, old.message, old.defaultValue, old.inputValue>>
             # <<new.open, new.message, new.defaultValue, new.inputValue>>)]

\* what queued the 'close' event, a handler that finished a request or the
\* user closing the dialog, and how many requests had been made by then
QueuedClose(p, by) == [p EXCEPT !.closeBy = by, !.closeAfter = Len(requests)]

\* _closeDialog: dialog.close() queues a 'close' event if the dialog was open
CloseDialog ==
    /\ dialogOpen' = FALSE
    /\ closeEvents' = IF dialogOpen THEN closeEvents + 1 ELSE closeEvents
    /\ pd' = StateAssigned(pd, IF dialogOpen
                                THEN QueuedClose([pd EXCEPT !.resolve = NoRequest,
                                                            !.open = FALSE,
                                                            !.inputValue = ""],
                                                 "finish")
                                ELSE [pd EXCEPT !.resolve = NoRequest,
                                                !.open = FALSE,
                                                !.inputValue = ""])

\* a confirm that reports the default value instead of the field's value
HandleConfirmWithDefault ==
    /\ ResolveWith(OrNull(pd.defaultValue))
    /\ CloseDialog

\* _handleConfirm
HandleConfirm ==
    /\ ResolveWith(OrNull(pd.inputValue))
    /\ CloseDialog

\* _handleCancel
HandleCancel ==
    /\ ResolveWith(NullResult)
    /\ CloseDialog

\* everything outside the prompt dialog, the command log and the bubble menu's
\* click handler
outsidePrompt == <<kind, isConnected, hasUpdated, provided, updateFrame,
                   pendingFrames, nextFrameId, lastUpdateTime, now, layoutVisible,
                   thrown, dom, tc, menuVars, root>>

\* Events are tasks: one is handled only after the microtasks of the tasks
\* before it (the dialog's Lit update) and after the events queued before it
\* (a pending 'close' event).
EventTurn == ~pd.updatePending /\ closeEvents = 0

\* The user can press a control of the dialog: it is shown.
DialogControlsUsable == pd.variant = "native" /\ dialogOpen /\ EventTurn

BubbleCommands == {"bold", "italic", "link", "image", "bulletList", "orderedList"}

\* BubbleMenu._handleClick on the button with data-command = cmd. The modal
\* dialog, while open, keeps clicks from the rest of the page.
BubbleHandleClick(cmd) ==
    /\ kind = "bubble"
    /\ isConnected /\ hasUpdated
    /\ ~dialogOpen /\ EventTurn
    /\ lastOp' = "click:" \o cmd
    /\ LET editor == editorContext.editor
       IN  IF editor = NoEditor
           THEN UNCHANGED <<active, bm, recomputed, updatePending, cmdLog, linkHref,
                            promptVars>>
           ELSE /\ IF cmd = "link"
                   THEN /\ Prompt("Enter URL:", linkHref, "link", linkHref)
                        /\ UNCHANGED <<active, cmdLog, dialogOpen, closeEvents>>
                   ELSE IF cmd = "image"
                   THEN /\ Prompt("Enter image URL:", "", "image", "")
                        /\ UNCHANGED <<active, cmdLog, dialogOpen, closeEvents>>
                   ELSE /\ active' = ToggleActive(active, cmd)
                        /\ cmdLog' = Append(cmdLog, Command("toggle", cmd))
                        /\ Len(cmdLog') <= MaxCommands
                        /\ UNCHANGED promptVars
                /\ bm' = UpdateButtonStates(editor, active', bm)
                /\ recomputed' = RecomputedBy(recomputed, "click", now)
                /\ updatePending' = TRUE
                /\ UNCHANGED linkHref
    /\ UNCHANGED <<editorContext, outsidePrompt>>

\* showPrompt called by other code of the page, at any moment (also from the
\* callback of an earlier request)
HostShowPrompt(message, defaultValue) ==
    /\ Prompt(message, defaultValue, "host", "")
    /\ lastOp' = "showPrompt"
    /\ UNCHANGED <<dialogOpen, closeEvents, cmdLog, linkHref, active, bm, recomputed,
                   updatePending, editorContext, outsidePrompt>>

\* The dialog's Lit update, then the callback prompt() attached to
\* updateComplete: showModal() unless the dialog is open already.
PromptUpdateComplete ==
    /\ pd.variant = "native"
    /\ pd.updatePending
    /\ pd' = [pd EXCEPT !.updatePending = FALSE, !.showRequested = FALSE]
    /\ dialogOpen' = (dialogOpen \/ pd.showRequested)
    /\ lastOp' = "updateComplete"
    /\ UNCHANGED <<dialogInstance, dialogsAppended, closeEvents, requests, typed,
                   cmdLog, linkHref, active, bm, recomputed, updatePending, editorContext,
                   outsidePrompt>>

\* _handleInput: the user edits the field to v
HandleInput(v) ==
    /\ DialogControlsUsable
    /\ pd' = StateAssigned(pd, [pd EXCEPT !.inputValue = v])
    /\ typed' = v
    /\ lastOp' = "input"
    /\ UNCHANGED <<dialogInstance, dialogsAppended, dialogOpen, closeEvents, requests,
                   cmdLog, linkHref, active, bm, recomputed, updatePending, editorContext,
                   outsidePrompt>>

\* click on OK
ClickOk ==
    /\ DialogControlsUsable
    /\ HandleConfirm
    /\ lastOp' = "ok"
    /\ UNCHANGED <<dialogInstance, dialogsAppended, typed, active, bm, recomputed, updatePending,
                   editorContext, outsidePrompt>>

\* click on Cancel
ClickCancel ==
    /\ DialogControlsUsable
    /\ HandleCancel
    /\ lastOp' = "cancel"
    /\ UNCHANGED <<dialogInstance, dialogsAppended, typed, active, bm, recomputed, updatePending,
                   editorContext, outsidePrompt>>

Keys == {"Enter", "Escape", "a"}

\* _handleKeyDown on the input field
HandleKeyDown(key) ==
    /\ DialogControlsUsable
    /\ IF key = "Enter" THEN HandleConfirm
       ELSE IF key = "Escape" THEN HandleCancel
       ELSE UNCHANGED <<pd, dialogOpen, closeEvents, requests, cmdLog, linkHref>>
    /\ lastOp' = "key:" \o key
    /\ UNCHANGED <<dialogInstance, dialogsAppended, typed, active, bm, recomputed, updatePending,
                   editorContext, outsidePrompt>>

\* The browser closes the dialog itself (Escape pressed outside the input
\* field): the dialog closes and its 'close' event is queued.
NativeClose ==
    /\ DialogControlsUsable
    /\ dialogOpen' = FALSE
    /\ closeEvents' = closeEvents + 1
    /\ pd' = QueuedClose(pd, "user")
    /\ lastOp' = "nativeClose"
    /\ UNCHANGED <<dialogInstance, dialogsAppended, requests, typed, cmdLog,
                   linkHref, active, bm, recomputed, updatePending, editorContext, outsidePrompt>>

\* _handleDialogClose: a queued 'close' event is delivered
HandleDialogClose ==
    /\ closeEvents > 0
    /\ ~pd.updatePending
    /\ closeEvents' = closeEvents - 1
    /\ ResolveWith(NullResult)
    /\ pd' = StateAssigned(pd, [pd EXCEPT !.resolve = NoRequest, !.open = FALSE,
                                          !.closeBy = "", !.closeAfter = 0])
    /\ lastOp' = "close"
    /\ UNCHANGED <<dialogInstance, dialogsAppended, dialogOpen, typed, active, bm, recomputed,
                   updatePending, editorContext, outsidePrompt>>

\* The user moves the selection onto text with another link, or none; the
\* modal dialog, while open, keeps the user from the document.
LinkChange(h) ==
    /\ h # linkHref
    /\ ~dialogOpen /\ EventTurn
    /\ linkHref' = h
    /\ UNCHANGED <<loopVars, engineViewVars, derivedVars, cmdLog, promptVars, menuVars,
                   root>>

(***************************************************************************)
(* Specification of the prompt dialog and the bubble menu's buttons        *)
(***************************************************************************)
\* a bubble menu that is attached, has rendered and runs its loop on engine 1
BubbleMenuReady ==
    /\ kind = "bubble"
    /\ isConnected = TRUE
    /\ hasUpdated = TRUE
    /\ updatePending = FALSE
    /\ editorContext = [editor |-> 1, editorElement |-> TRUE]
    /\ provided = [editor |-> 1, editorElement |-> TRUE]
    /\ updateFrame = 3
    /\ pendingFrames = {3}
    /\ nextFrameId = 4
    /\ lastUpdateTime = InitialLastUpdateTime
    /\ now = StartClock
    /\ layoutVisible = FALSE
    /\ thrown = FALSE
    /\ lastOp = "updated"
    /\ active = {}
    /\ dom = [chain |-> <<"P">>, rowIndex |-> 0, cellIndex |-> 0]
    /\ InitMenuState

InitPromptSpec ==
    /\ BubbleMenuReady
    /\ InitRootIdle
    /\ InitCommands
    /\ InitPrompt

PromptMessages == {"Title:"}
PromptDefaults == {"https://x"}

\* the buttons pressed in this specification: one toggle and the two that prompt
PromptCommands == {"bold", "link", "image"}

\* the context value provided in this specification: the engine goes away
PromptContexts == {NoContext}

NextPrompt ==
    \/ \E cmd \in PromptCommands : BubbleHandleClick(cmd)
    \/ \E m \in PromptMessages, d \in PromptDefaults : HostShowPrompt(m, d)
    \/ PromptUpdateComplete
    \/ \E v \in InputValues : HandleInput(v)
    \/ ClickOk
    \/ ClickCancel
    \/ \E k \in Keys : HandleKeyDown(k)
    \/ NativeClose
    \/ HandleDialogClose
    \/ \E h \in InputValues : LinkChange(h)
    \/ \E v \in PromptContexts : ContextProvided(v)

SpecPrompt == InitPromptSpec /\ [][NextPrompt]_vars

(***************************************************************************)
(* Properties of the prompt dialog                                         *)
(***************************************************************************)
\* what the input field holds: the last typed value, or the default value if
\* nothing was typed since prompt()
FieldValue == IF typed = NothingTyped THEN pd.defaultValue ELSE typed

Pending == pd.resolve # NoRequest

\* a step of the dialog's controls closes the open dialog
ConfirmStep == dialogOpen /\ ~dialogOpen' /\ lastOp' \in {"ok", "key:Enter"}
CancelStep == dialogOpen /\ ~dialogOpen' /\ lastOp' \in {"cancel", "key:Escape"}
CloseEventStep == closeEvents' < closeEvents /\ lastOp' = "close"

C5_CancelLinkIssuesNoCommand ==
    [][(/\ Pending
        /\ requests[pd.resolve].then = "link"
        /\ (CancelStep \/ CloseEventStep)) =>
            /\ cmdLog' = cmdLog
            /\ linkHref' = linkHref]_vars

\* C6: a prompt() made while a request is pending raises nothing and takes the
\* dialog over (message, default value, resolver); the request it replaced
\* stays unresolved, and every later step resolves at most the current request.
C6_SecondPromptSupersedes ==
    [][/\ (Pending /\ Len(requests') = Len(requests) + 1) =>
            /\ pd'.resolve = Len(requests')
            /\ pd'.message = requests'[pd'.resolve].message
            /\ pd'.defaultValue = requests'[pd'.resolve].defaultValue
            /\ pd'.inputValue = requests'[pd'.resolve].defaultValue
            /\ requests'[pd.resolve].result = Unresolved
            /\ ~thrown'
       /\ \A i \in 1..Len(requests) :
            requests'[i].result # requests[i].result => i = pd.resolve]_vars

\* the second of two requests was confirmed, the first is still unresolved
C6_Witness ==
    /\ Len(requests) = 2
    /\ requests[1].result = Unresolved
    /\ requests[2].result \in Urls
    /\ lastOp \in {"ok", "key:Enter"}

(***************************************************************************)
(* The root editor component: handlers                                     *)
(***************************************************************************)
\* engines and scheduled callbacks of one run
MaxEngines == 2
MaxCallbacks == 2

\* everything but the root component
outsideRoot == <<kind, isConnected, hasUpdated, updatePending, editorContext, provided,
                 updateFrame, pendingFrames, nextFrameId, lastUpdateTime, now,
                 layoutVisible, thrown, engineViewVars, derivedVars, commandVars,
                 promptVars, menuVars>>

\* the root after a handler that left it as R
SetRoot(R) ==
    /\ Len(R.engines) <= MaxEngines
    /\ Len(R.frames) <= MaxCallbacks
    /\ R.timers <= MaxCallbacks
    /\ root' = R

RootContentType(R) == IF R.markdown THEN "markdown" ELSE "html"

\* _tryInitializeEditor, called after a render (the .tiptap-editor element
\* exists). The bubble menu plugin takes the menu element over: `keep` tells
\* whether it leaves it in the shadow root.
TryInitializeEditor(R, keep) ==
    IF R.editor # NoEditor THEN R
    ELSE IF ~R.container THEN [R EXCEPT !.frames = Append(@, "tryInitializeEditor")]
    ELSE PluginUpdate(
           [R EXCEPT !.isInitializing = TRUE,
                     !.engines = Append(@, [live |-> TRUE,
                                            markdownExtension |-> R.markdown,
                                            doc |-> ParseContent(R.content,
                                                                 RootContentType(R))]),
                     !.editor = Len(R.engines) + 1,
                     !.container = keep,
                     !.selection = IF R.variant = "TipTapEditor" THEN <<1, 1>>
                                   ELSE <<0, 0>>,
                     !.dragging = FALSE,
                     !.editorContext = [editor |-> Len(R.engines) + 1,
                                        editorElement |-> TRUE],
                     !.isUpdatePending = (@ \/ R.variant = "TipTapEditor"),
                     !.frames = Append(@, "setTimeout")])

\* the onUpdate option: the engine R.editor reports a document change
OnUpdate(R) ==
    LET s == Serialised(R.engines[R.editor], R.markdown)
    IN  IF s = TypeError THEN [R EXCEPT !.thrown = TRUE]
        ELSE [R EXCEPT !.editedContent = s,
                       !.dispatched = IF R.isInitializing THEN @ ELSE Append(@, s),
                       !.isUpdatePending = TRUE]

\* commands.setContent(this.content, ...) of updated(): TipTapEditor passes
\* emitUpdate: false, BaseEditor lets the engine call onUpdate
SetEngineContent(R) ==
    LET R1 == PluginUpdate(
                [R EXCEPT !.engines[R.editor].doc =
                              ParseContent(R.content, RootContentType(R)),
                          !.selection = <<0, 0>>])
    IN  IF R.variant = "BaseEditor" THEN OnUpdate(R1) ELSE R1

\* updated(changedProperties), changedContent: changedProperties.has('content');
\* setEditable has no part in this model
RootUpdated(R, changedContent, keep) ==
    LET R1 == IF R.editor = NoEditor THEN TryInitializeEditor(R, keep) ELSE R
        cur == Serialised(R1.engines[R1.editor], R1.markdown)
    IN  IF ~changedContent \/ R1.editor = NoEditor THEN R1
        ELSE IF cur = TypeError THEN [R1 EXCEPT !.thrown = TRUE]
        ELSE IF cur = R1.content THEN R1
        ELSE LET R2 == SetEngineContent([R1 EXCEPT !.isInitializing = TRUE])
             IN  [R2 EXCEPT !.editedContent = R1.content,
                            !.isUpdatePending = (@ \/ R2.editedContent # R1.content),
                            !.frames = Append(@, "clearInitializing")]

\* an engine after destroy(): nothing of it is read again
DestroyedEngine == [live |-> FALSE, markdownExtension |-> FALSE, doc |-> ""]

\* a disconnectedCallback that drops the engine without destroying it
RootDisconnectedDropsEngine(R, keep) ==
    [R EXCEPT !.isConnected = FALSE, !.editor = NoEditor, !.container = keep,
              !.visibility = "hidden"]

\* disconnectedCallback of the root
RootDisconnected(R, keep) ==
    IF R.editor = NoEditor THEN [R EXCEPT !.isConnected = FALSE]
    ELSE [R EXCEPT !.isConnected = FALSE,
                   !.engines[R.editor] = DestroyedEngine,
                   !.editor = NoEditor,
                   !.container = keep,
                   !.visibility = "hidden"]

(***************************************************************************)
(* The root editor component: actions                                      *)
(***************************************************************************)
\* the root as a handler finds it: nothing dispatched or thrown yet
Handling == [root EXCEPT !.dispatched = <<>>, !.thrown = FALSE]

\* connectedCallback of the root: Lit enables updating on the first connect
RootConnectedCallback ==
    /\ ~root.isConnected
    /\ SetRoot([Handling EXCEPT !.isConnected = TRUE, !.updatingEnabled = TRUE])
    /\ lastOp' = "root"
    /\ UNCHANGED outsideRoot

\* disconnectedCallback of the root
RootDisconnectedCallback ==
    /\ root.isConnected
    /\ \E keep \in BOOLEAN : SetRoot(RootDisconnected(Handling, keep))
    /\ lastOp' = "root"
    /\ UNCHANGED outsideRoot

\* A Lit update of the root: render, firstUpdated on the first one, updated.
\* Lit runs a requested update whether or not the element is still connected.
RootPerformUpdate ==
    /\ root.isUpdatePending /\ root.updatingEnabled
    /\ \E keep \in BOOLEAN :
          LET R0 == [Handling EXCEPT !.isUpdatePending = FALSE,
                                 !.contentChanged = FALSE,
                                 !.hasUpdated = TRUE,
                                 !.container = (@ \/ ~root.hasUpdated)]
              R1 == IF root.hasUpdated THEN R0 ELSE TryInitializeEditor(R0, keep)
          IN  SetRoot(RootUpdated(R1, root.contentChanged, keep))
    /\ lastOp' = "root.updated"
    /\ UNCHANGED outsideRoot

\* the browser runs the oldest requestAnimationFrame callback of the root
RootAnimationFrame ==
    /\ root.frames # <<>>
    /\ LET R == [Handling EXCEPT !.frames = Tail(@)]
           callback == Head(root.frames)
       IN  \E keep \in BOOLEAN :
              SetRoot(IF callback = "tryInitializeEditor"
                      THEN TryInitializeEditor(R, keep)
                      ELSE IF callback = "setTimeout"
                      THEN [R EXCEPT !.timers = @ + 1]
                      ELSE [R EXCEPT !.isInitializing = FALSE])
    /\ lastOp' = "root"
    /\ UNCHANGED outsideRoot

\* a 200 ms timer of _tryInitializeEditor expires
RootTimeout ==
    /\ root.timers > 0
    /\ SetRoot([Handling EXCEPT !.timers = @ - 1, !.isInitializing = FALSE])
    /\ lastOp' = "root"
    /\ UNCHANGED outsideRoot

\* The host sets the content and markdown properties to c and m in one task,
\* after the updates requested by earlier tasks have run.
SetProperties(c, m) ==
    /\ ~root.isUpdatePending
    /\ <<c, m>> # <<root.content, root.markdown>>
    /\ SetRoot([Handling EXCEPT !.content = c, !.markdown = m,
                                !.contentChanged = (c # root.content),
                                !.isUpdatePending = TRUE])
    /\ lastOp' = "root"
    /\ UNCHANGED outsideRoot

\* A transaction changes the document of the root's engine to doc; handlers run
\* only between Lit updates. The plugin updates, then onUpdate runs.
EngineUpdate(doc) ==
    /\ root.editor # NoEditor
    /\ ~root.isUpdatePending
    /\ doc # root.engines[root.editor].doc
    /\ SetRoot(OnUpdate(PluginUpdate(
                  [Handling EXCEPT !.engines[root.editor].doc = doc,
                               !.selection = <<1, 1>>])))
    /\ lastOp' = "onUpdate"
    /\ UNCHANGED outsideRoot

\* The selection of the root's engine changes: the plugin updates and
\* onSelectionUpdate requests an update (its event is not recorded).
SelectionUpdate(sel) ==
    /\ root.editor # NoEditor
    /\ ~root.isUpdatePending
    /\ sel # root.selection
    /\ SetRoot([PluginUpdate([Handling EXCEPT !.selection = sel])
                   EXCEPT !.isUpdatePending = TRUE])
    /\ lastOp' = "onSelectionUpdate"
    /\ UNCHANGED outsideRoot

\* dragstart / dragend in the view: view.dragging is set or cleared
DragChange ==
    /\ root.editor # NoEditor
    /\ ~root.isUpdatePending
    /\ SetRoot([Handling EXCEPT !.dragging = ~@])
    /\ lastOp' = "root"
    /\ UNCHANGED outsideRoot

(***************************************************************************)
(* Specification of the root editor component                              *)
(***************************************************************************)
InitRoot ==
    /\ \E v \in Variants, c \in Contents, m \in BOOLEAN : root = NewRoot(v, c, m)
    /\ kind = "bubble"
    /\ isConnected = FALSE
    /\ hasUpdated = FALSE
    /\ updatePending = FALSE
    /\ editorContext = NoContext
    /\ provided = NoContext
    /\ updateFrame = NoFrame
    /\ pendingFrames = {}
    /\ nextFrameId = 1
    /\ lastUpdateTime = InitialLastUpdateTime
    /\ now = StartClock
    /\ layoutVisible = FALSE
    /\ thrown = FALSE
    /\ lastOp = "constructor"
    /\ active = {}
    /\ dom = [chain |-> <<"P">>, rowIndex |-> 0, cellIndex |-> 0]
    /\ InitMenuState
    /\ InitCommands
    /\ InitPrompt

NextRoot ==
    \/ RootConnectedCallback
    \/ RootDisconnectedCallback
    \/ RootPerformUpdate
    \/ RootAnimationFrame
    \/ RootTimeout
    \/ \E c \in Contents, m \in BOOLEAN : SetProperties(c, m)
    \/ \E doc \in Docs : EngineUpdate(doc)
    \/ \E sel \in Selections : SelectionUpdate(sel)
    \/ DragChange

SpecRoot == InitRoot /\ [][NextRoot]_vars

(***************************************************************************)
(* Properties of the root editor component                                 *)
(***************************************************************************)
\* a step in which the bubble menu plugin evaluated shouldShow
PluginStep == lastOp' \in {"onUpdate", "onSelectionUpdate"}

\* C3 as stated: the show predicate yields "visible" for every non-empty
\* selection and "hidden" for every empty one (from = to).
C3_VisibleIffSelectionNonEmpty ==
    [][PluginStep =>
         /\ ~SelectionEmpty(root'.selection) => root'.visibility = "visible"
         /\ SelectionEmpty(root'.selection) => root'.visibility = "hidden"]_vars

\* C3, amended: the show predicate yields "hidden" for every empty selection;
\* for a non-empty one it yields "visible", except that BaseEditor's predicate
\* yields "hidden" while the view is dragging.
C3_VisibleIffNonEmptyAndNotDragging ==
    [][PluginStep =>
         (root'.visibility = "visible") <=>
            /\ ~SelectionEmpty(root'.selection)
            /\ ~(root'.variant = "BaseEditor" /\ root'.dragging)]_vars

\* BaseEditor's menu stays hidden on a non-empty selection made while dragging
C3_Witness ==
    /\ lastOp = "onSelectionUpdate"
    /\ root.variant = "BaseEditor"
    /\ root.dragging
    /\ ~SelectionEmpty(root.selection)
    /\ root.visibility = "hidden"

\* C7: whenever the context value the root provides names an engine, that
\* engine is live (created and not destroyed).
C7_ContextEngineIsLive ==
    root.editorContext.editor # NoEditor =>
        root.engines[root.editorContext.editor].live

\* C8: while the root is detached no engine it created is live, whatever
\* updates or frame callbacks ran after the detach.
C8_DetachedRootHasNoLiveEngine ==
    ~root.isConnected => \A e \in 1..Len(root.engines) : ~root.engines[e].live

\* C9: an engine update callback dispatches exactly one content-changed event,
\* carrying the engine's serialised content (Markdown in markdown mode, HTML
\* otherwise), when the initializing flag is false; no handler dispatches one
\* while the flag is true.
C9_ContentChangedOncePerUpdate ==
    [][/\ (lastOp' = "onUpdate" /\ ~root.isInitializing) =>
            root'.dispatched =
                <<IF root'.markdown
                  THEN GetMarkdown(root'.engines[root'.editor].doc)
                  ELSE GetHTML(root'.engines[root'.editor].doc)>>
       /\ (root.isInitializing /\ root'.isInitializing) =>
            root'.dispatched = <<>>]_vars

(***************************************************************************)
(* Handlers of the menus                                                   *)
(***************************************************************************)
\* the components that consume the context
MenuKinds == LoopKinds \cup {"floating", "heading"}

\* what a handler of the floating menu leaves alone besides the menus' own
\* state and the component's Lit update
outsideFloating == <<kind, isConnected, hasUpdated, editorContext, provided,
                     updateFrame, pendingFrames, nextFrameId, lastUpdateTime, now,
                     layoutVisible, engineViewVars, linkHref, promptVars, sl,
                     root>>

\* what a handler of another menu leaves alone besides the menus' own state
outsideMenus == <<updatePending, outsideFloating>>

\* an attached and rendered component of the given kind
Rendered(k) == kind = k /\ isConnected /\ hasUpdated

\* view.posAtCoords: a document position, or null outside the document
Coords == {NoPos, 0, 1}

\* a floating menu whose position() shows the menu whatever the context holds
FloatingPositionUnguarded(f, ctx, coords) ==
    [f EXCEPT !.pos = IF coords # NoPos THEN coords ELSE @, !.visible = TRUE]

\* a floating menu whose position() forgets its position when the engine maps
\* the coordinates to none
FloatingPositionForgetting(f, ctx, coords) ==
    IF ctx.editor = NoEditor \/ ~ctx.editorElement THEN f
    ELSE [f EXCEPT !.pos = coords, !.visible = TRUE]

\* FloatingMenu.position
FloatingPosition(f, ctx, coords) ==
    IF ctx.editor = NoEditor \/ ~ctx.editorElement THEN f
    ELSE [f EXCEPT !.pos = IF coords # NoPos THEN coords ELSE @, !.visible = TRUE]

\* FloatingMenu.toggle
FloatingToggle(f, ctx, coords) ==
    IF f.visible THEN [f EXCEPT !.visible = FALSE]
    ELSE FloatingPosition(f, ctx, coords)

\* `visible` is a reactive property: assigning it another value requests a
\* Lit update of the floating menu; `pos` is a plain field
VisibleAssigned(f) ==
    updatePending' = (updatePending \/ f.visible # fm.visible)

\* Events are tasks: the floating menu handles one after its Lit update
FloatingEventTurn == Rendered("floating") /\ ~updatePending

\* FloatingMenu.position called by the page
FloatingMenuPosition(coords) ==
    /\ Rendered("floating")
    /\ fm' = FloatingPosition(fm, editorContext, coords)
    /\ VisibleAssigned(fm')
    /\ lastOp' = "floating.position"
    /\ UNCHANGED <<hd, bm, recomputed, tc, cmdLog, thrown, outsideFloating>>

\* FloatingMenu.toggle called by the page
FloatingMenuToggle(coords) ==
    /\ Rendered("floating")
    /\ fm' = FloatingToggle(fm, editorContext, coords)
    /\ VisibleAssigned(fm')
    /\ lastOp' = "floating.toggle"
    /\ UNCHANGED <<hd, bm, recomputed, tc, cmdLog, thrown, outsideFloating>>

\* the handler that ran last, for a click whose coordinates map to coords
GutterAddOp(coords) == "gutter.add@" \o ToString(coords)

\* GutterMenu._handleAddClick: a click on the "+" button toggles the floating
\* menu slotted into the gutter menu
GutterHandleAddClick(coords) ==
    /\ FloatingEventTurn
    /\ fm' = FloatingToggle(fm, editorContext, coords)
    /\ VisibleAssigned(fm')
    /\ lastOp' = GutterAddOp(coords)
    /\ UNCHANGED <<hd, bm, recomputed, tc, cmdLog, thrown, outsideFloating>>

\* The Lit update of the floating menu: render() passes `pos` to the heading
\* dropdown it contains (.insertPos="${this.pos}")
FloatingMenuUpdate ==
    /\ Rendered("floating")
    /\ updatePending
    /\ updatePending' = FALSE
    /\ hd' = [hd EXCEPT !.insertPos = fm.pos]
    /\ lastOp' = "floating.updated"
    /\ UNCHANGED <<fm, bm, recomputed, tc, cmdLog, thrown, outsideFloating>>

FloatingCommands == {"bulletList", "orderedList", "codeBlock"}

\* chain().focus().insertContentAt(pos, {type}).setTextSelection(pos + 1).run()
InsertCommand(type, pos) ==
    Command("insertContentAt",
            type \o "@" \o ToString(pos) \o ", selection " \o ToString(pos + 1))

FloatingClickOp(cmd) == "floating.click:" \o cmd

\* FloatingMenu._handleClick on the button with data-command = cmd
FloatingMenuHandleClick(cmd) ==
    /\ FloatingEventTurn
    /\ fm.visible
    /\ IF editorContext.editor = NoEditor \/ fm.pos = NoPos
       THEN UNCHANGED <<fm, cmdLog>>
       ELSE /\ cmdLog' = Append(cmdLog, InsertCommand(cmd, fm.pos))
            /\ Len(cmdLog') <= MaxCommands
            /\ fm' = [fm EXCEPT !.visible = FALSE]
    /\ VisibleAssigned(fm')
    /\ lastOp' = FloatingClickOp(cmd)
    /\ UNCHANGED <<hd, bm, recomputed, tc, thrown, outsideFloating>>

\* FloatingMenu._handleMouseLeave
FloatingMenuMouseLeave ==
    /\ FloatingEventTurn
    /\ fm.visible
    /\ fm' = [fm EXCEPT !.visible = FALSE]
    /\ VisibleAssigned(fm')
    /\ lastOp' = "floating.mouseleave"
    /\ UNCHANGED <<hd, bm, recomputed, tc, cmdLog, thrown, outsideFloating>>

HeadingModes == {"toggle", "insert"}
\* `type HeadingLevel = 1 | 2 | 3 | 4 | 5 | 6`
HeadingLevels == 1..6

\* The heading dropdown stands alone (the page sets its properties) or inside
\* the floating menu, whose template sets mode="insert" and passes insertPos;
\* inside the hidden floating menu (display: none) it cannot be clicked.
HeadingEventTurn ==
    \/ Rendered("heading")
    \/ (FloatingEventTurn /\ fm.visible)

\* the page sets the dropdown's mode and insertPos properties
HeadingSetMode(mode, insertPos) ==
    /\ Rendered("heading")
    /\ <<mode, insertPos>> # <<hd.mode, hd.insertPos>>
    /\ hd' = [hd EXCEPT !.mode = mode, !.insertPos = insertPos]
    /\ lastOp' = "heading.setProperties"
    /\ UNCHANGED <<fm, bm, recomputed, tc, cmdLog, thrown, outsideMenus>>

\* HeadingDropdown._toggleDropdown
HeadingToggleDropdown ==
    /\ HeadingEventTurn
    /\ hd' = [hd EXCEPT !.open = ~@]
    /\ lastOp' = "heading.toggleDropdown"
    /\ UNCHANGED <<fm, bm, recomputed, tc, cmdLog, thrown, outsideMenus>>

\* the node type of a heading of the given level, of a paragraph for level 0
BlockOfLevel(level) ==
    IF level = 0 THEN "paragraph" ELSE "heading" \o ToString(level)

\* a dropdown that transforms the current block in either mode
HeadingCommandAlwaysToggle(h, level) ==
    IF level = 0 THEN Command("setParagraph", "")
    ELSE Command("toggleHeading", ToString(level))

\* the command _selectHeading (level > 0) or _selectParagraph (level 0) runs
HeadingCommand(h, level) ==
    IF h.mode = "insert" /\ h.insertPos # NoPos
    THEN InsertCommand(BlockOfLevel(level), h.insertPos)
    ELSE IF level = 0 THEN Command("setParagraph", "")
    ELSE Command("toggleHeading", ToString(level))

\* _selectHeading / _selectParagraph dispatch heading-inserted /
\* paragraph-inserted after an insert; the floating menu around the dropdown
\* hides on either (_onContentInserted)
Inserted(h) == h.mode = "insert" /\ h.insertPos # NoPos

HeadingSelectOp(level) == "heading.select:" \o ToString(level)

\* HeadingDropdown._selectHeading(level), _selectParagraph for level 0: an item
\* of the open dropdown is clicked
HeadingSelect(level) ==
    /\ HeadingEventTurn
    /\ hd.open
    /\ IF editorContext.editor = NoEditor
       THEN UNCHANGED <<hd, fm, cmdLog>>
       ELSE /\ cmdLog' = Append(cmdLog, HeadingCommand(hd, level))
            /\ Len(cmdLog') <= MaxCommands
            /\ hd' = [hd EXCEPT !.open = FALSE]
            /\ fm' = IF kind = "floating" /\ Inserted(hd)
                     THEN [fm EXCEPT !.visible = FALSE] ELSE fm
    /\ VisibleAssigned(fm')
    /\ lastOp' = HeadingSelectOp(level)
    /\ UNCHANGED <<bm, recomputed, tc, thrown, outsideFloating>>

ColumnCommands == {"addColumnBefore", "addColumnAfter", "deleteColumn"}
RowCommands == {"addRowBefore", "addRowAfter", "toggleHeaderRow", "deleteRow",
                "deleteTable"}
TableCommands == ColumnCommands \cup RowCommands

\* TableControls.render draws its buttons and menus
TableControlsShown(t) ==
    t.isInTable /\ t.cellPosition # NoPosition /\ t.tablePosition # NoPosition

\* TableControls._handleCommand: the command log and the fields afterwards
TableControlsHandleCommand(cmd) ==
    IF editorContext.editor = NoEditor
    THEN UNCHANGED <<tc, cmdLog>>
    ELSE /\ cmdLog' = Append(cmdLog, Command(cmd, ""))
         /\ Len(cmdLog') <= MaxCommands
         /\ tc' = [tc EXCEPT !.showColumnMenu = FALSE, !.showRowMenu = FALSE]

\* a "toggle header row" item that runs in every row
HeaderRowAlwaysPermitted(t) == TRUE

\* `this._isFirstRow && this._handleCommand('toggleHeaderRow')`, and the
\* item's ?disabled=${!this._isFirstRow}
HeaderRowPermitted(t) == t.isFirstRow

TableClickOp(cmd) == "tableControls.click:" \o cmd

\* a click on the item cmd of the open column or row menu; a click on the
\* disabled "toggle header row" item reaches no handler
TableControlsClickItem(cmd) ==
    /\ Rendered("tableControls")
    /\ TableControlsShown(tc)
    /\ IF cmd \in ColumnCommands THEN tc.showColumnMenu ELSE tc.showRowMenu
    /\ IF cmd = "toggleHeaderRow" /\ ~HeaderRowPermitted(tc)
       THEN UNCHANGED <<tc, cmdLog>>
       ELSE TableControlsHandleCommand(cmd)
    /\ lastOp' = TableClickOp(cmd)
    /\ UNCHANGED <<fm, hd, bm, recomputed, thrown, outsideMenus>>

\* TableControls._updatePosition
TableControlsUpdatePosition ==
    /\ Rendered("tableControls")
    /\ tc' = UpdatePosition(editorContext, active, dom, tc)
    /\ recomputed' = IF editorContext.editor # NoEditor /\ editorContext.editorElement
                     THEN RecomputedBy(recomputed, "call", now)
                     ELSE recomputed
    /\ lastOp' = "tableControls.updatePosition"
    /\ UNCHANGED <<fm, hd, bm, cmdLog, thrown, outsideMenus>>

\* TableControls._toggleColumnMenu / _toggleRowMenu on the rendered buttons
TableControlsToggleMenu(which) ==
    /\ Rendered("tableControls")
    /\ TableControlsShown(tc)
    /\ tc' = IF which = "column"
             THEN [tc EXCEPT !.showColumnMenu = ~@, !.showRowMenu = FALSE]
             ELSE [tc EXCEPT !.showRowMenu = ~@, !.showColumnMenu = FALSE]
    /\ lastOp' = "tableControls.toggleMenu"
    /\ UNCHANGED <<fm, hd, bm, recomputed, cmdLog, thrown, outsideMenus>>

(***************************************************************************)
(* Specification of the menus' handlers                                    *)
(***************************************************************************)
InitMenus ==
    /\ kind \in MenuKinds
    /\ isConnected = TRUE
    /\ hasUpdated = TRUE
    /\ updatePending = FALSE
    /\ editorContext = NoContext
    /\ provided = NoContext
    /\ updateFrame = NoFrame
    /\ pendingFrames = {}
    /\ nextFrameId = 1
    /\ lastUpdateTime = InitialLastUpdateTime
    /\ now = StartClock
    /\ layoutVisible = FALSE
    /\ thrown = FALSE
    /\ lastOp = "updated"
    /\ active = {}
    /\ dom = [chain |-> <<"P">>, rowIndex |-> 0, cellIndex |-> 0]
    /\ fm = [visible |-> FALSE, pos |-> NoPos]
    /\ hd = IF kind = "floating" THEN EmbeddedDropdown ELSE StandaloneDropdown
    /\ sl = NoSlash
    /\ bm = [isInList |-> FALSE, isInHeading |-> FALSE]
    /\ recomputed = NeverRecomputed
    /\ tc = NoTable
    /\ InitCommands
    /\ InitPrompt
    /\ InitRootIdle

\* the engine's view changes under a menu that reads it: the bubble menu's
\* _updateButtonStates and the table controls' _updatePosition
MenuEngineChange(e) ==
    /\ kind \in {"bubble", "tableControls"}
    /\ EngineChange(e)

NextMenus ==
    \/ \E cmd \in BubbleCommands : BubbleHandleClick(cmd)
    \/ \E c \in Coords : FloatingMenuPosition(c)
    \/ \E c \in Coords : FloatingMenuToggle(c)
    \/ \E c \in Coords : GutterHandleAddClick(c)
    \/ FloatingMenuUpdate
    \/ \E cmd \in FloatingCommands : FloatingMenuHandleClick(cmd)
    \/ FloatingMenuMouseLeave
    \/ \E m \in HeadingModes, q \in Coords : HeadingSetMode(m, q)
    \/ HeadingToggleDropdown
    \/ \E level \in {0} \cup HeadingLevels : HeadingSelect(level)
    \/ \E cmd \in TableCommands : TableControlsClickItem(cmd)
    \/ TableControlsUpdatePosition
    \/ \E which \in {"column", "row"} : TableControlsToggleMenu(which)
    \/ \E v \in ProvidedValues : ContextProvided(v)
    \/ \E e \in EngineViews : MenuEngineChange(e)

SpecMenus == InitMenus /\ [][NextMenus]_vars

(***************************************************************************)
(* Properties of the menus' handlers                                       *)
(***************************************************************************)
\* the operations of the menus that reach for the engine
EngineOps ==
    {"click:" \o cmd : cmd \in BubbleCommands}
        \cup {"floating.position", "floating.toggle", "tableControls.updatePosition"}
        \cup {GutterAddOp(c) : c \in Coords}
        \cup {FloatingClickOp(cmd) : cmd \in FloatingCommands}
        \cup {HeadingSelectOp(level) : level \in {0} \cup HeadingLevels}
        \cup {TableClickOp(cmd) : cmd \in TableCommands}

\* C10: with a null engine handle in the context, a bubble-menu click, a
\* floating-menu position, toggle or click, a heading selection and a
\* table-controls command or refresh issue no command to the engine, open no
\* prompt, throw nothing and make no menu visible.
C10_NullEngineOperationsAreInert ==
    [][(editorContext.editor = NoEditor /\ lastOp' \in EngineOps) =>
         /\ cmdLog' = cmdLog
         /\ requests' = requests
         /\ ~thrown'
         /\ fm'.visible => fm.visible
         /\ hd'.open => hd.open
         /\ TableControlsShown(tc') => TableControlsShown(tc)
         /\ bm' = bm]_vars

\* the engine went away after the floating menu had been placed; a toggle of
\* the hidden menu left it hidden
C10_Witness ==
    /\ lastOp = "floating.toggle"
    /\ editorContext.editor = NoEditor
    /\ fm.pos # NoPos
    /\ ~fm.visible

\* a step of the menu handler op (the engine's own changes leave lastOp alone)
MenuStep(op) ==
    /\ lastOp' = op
    /\ <<lastOp, menuVars, derivedVars, cmdLog, updatePending>>'
          # <<lastOp, menuVars, derivedVars, cmdLog, updatePending>>

\* the engine and the root element are available to the floating menu
FloatingReady == editorContext.editor # NoEditor /\ editorContext.editorElement

\* C11 as stated: an add click on the hidden menu (engine and root element
\* available) remembers the position the engine maps from the click's
\* coordinates and shows the menu; an add click on the visible menu hides it.
C11_AddClickRemembersMappedPosition ==
    [][\A c \in Coords :
         (MenuStep(GutterAddOp(c)) /\ FloatingReady) =>
            IF fm.visible THEN ~fm'.visible
            ELSE fm'.visible /\ fm'.pos = c /\ fm'.pos # NoPos]_vars

\* C11, amended: an add click on the hidden menu (engine and root element
\* available) shows the menu, and remembers the position the engine maps from
\* the click's coordinates if it maps them to one: if it maps them to none,
\* the position remembered before (or none) is kept. An add click on the
\* visible menu hides it and keeps the position, so successive add clicks
\* alternate the menu's visibility.
C11_AddClickTogglesAndKeepsUnmapped ==
    [][\A c \in Coords :
         (MenuStep(GutterAddOp(c)) /\ FloatingReady) =>
            /\ fm'.visible = ~fm.visible
            /\ fm'.pos = IF ~fm.visible /\ c # NoPos THEN c ELSE fm.pos]_vars

\* an add click whose coordinates map to no position showed the menu with the
\* position of an earlier click
C11_Witness ==
    /\ lastOp = GutterAddOp(NoPos)
    /\ FloatingReady
    /\ fm.visible
    /\ fm.pos = 1

\* the block a floating-menu step inserts, "" for a step of another handler
ChosenBlock(op) ==
    IF \E cmd \in FloatingCommands : op = FloatingClickOp(cmd)
    THEN CHOOSE cmd \in FloatingCommands : op = FloatingClickOp(cmd)
    ELSE IF \E level \in {0} \cup HeadingLevels : op = HeadingSelectOp(level)
    THEN BlockOfLevel(CHOOSE level \in {0} \cup HeadingLevels :
                          op = HeadingSelectOp(level))
    ELSE ""

\* C12: an action of the visible floating menu (a level or paragraph of its
\* dropdown, bullet list, ordered list, code block), with the engine
\* available, issues exactly one insert of the chosen block at the remembered
\* position with the selection at that position + 1, and hides the menu.
C12_FloatingActionInsertsAndHides ==
    [][(/\ kind = "floating"
        /\ fm.visible
        /\ editorContext.editor # NoEditor
        /\ ChosenBlock(lastOp') # ""
        /\ MenuStep(lastOp')) =>
            /\ cmdLog' = Append(cmdLog, InsertCommand(ChosenBlock(lastOp'), fm.pos))
            /\ ~fm'.visible]_vars

\* C13: with the engine available, selecting level L in the heading dropdown
\* issues, in toggle mode, one toggle-heading(L) command and no insert; in
\* insert mode at position p, one insert of a heading(L) node at p with the
\* selection at p + 1, and no command that transforms a block.
C13_HeadingSelectByMode ==
    [][\A L \in HeadingLevels :
         (MenuStep(HeadingSelectOp(L)) /\ editorContext.editor # NoEditor) =>
            /\ hd.mode = "toggle" =>
                  cmdLog' = Append(cmdLog, Command("toggleHeading", ToString(L)))
            /\ (hd.mode = "insert" /\ hd.insertPos # NoPos) =>
                  cmdLog' = Append(cmdLog,
                                   InsertCommand(BlockOfLevel(L), hd.insertPos))]_vars

\* level 3 was selected in insert mode at position 1
C13_Witness ==
    /\ lastOp = HeadingSelectOp(3)
    /\ hd.mode = "insert"
    /\ hd.insertPos = 1
    /\ cmdLog = <<InsertCommand("heading3", 1)>>

\* C15: a click on "toggle header row" issues the toggle-header-row command
\* when the isFirstRow flag is true (and the engine is available); when the
\* flag is false it issues no command and changes no field of the component;
\* no other step issues that command.
C15_HeaderRowOnlyInFirstRow ==
    [][/\ MenuStep(TableClickOp("toggleHeaderRow")) =>
            IF tc.isFirstRow
            THEN editorContext.editor # NoEditor =>
                    cmdLog' = Append(cmdLog, Command("toggleHeaderRow", ""))
            ELSE cmdLog' = cmdLog /\ tc' = tc
       /\ (cmdLog' # cmdLog
           /\ cmdLog'[Len(cmdLog')] = Command("toggleHeaderRow", "")) =>
            tc.isFirstRow]_vars

\* the disabled item was clicked in the open row menu of a cell below the
\* first row
C15_Witness ==
    /\ lastOp = TableClickOp("toggleHeaderRow")
    /\ ~tc.isFirstRow
    /\ tc.showRowMenu
    /\ editorContext.editor # NoEditor
    /\ cmdLog = <<>>

(***************************************************************************)
(* The slash command: slash-command.ts and SlashMenu                       *)
(***************************************************************************)
\* the longest query typed, and the characters the user types
MaxQueryLen == 2
QueryChars == {"h", "E", "d"}

\* String.prototype.toLowerCase
LowerChar(c) ==
    IF \E i \in 1..Len(UpperCase) : UpperCase[i] = c
    THEN LowerCase[CHOOSE i \in 1..Len(UpperCase) : UpperCase[i] = c]
    ELSE c
ToLowerCase(str) == [i \in 1..Len(str) |-> LowerChar(str[i])]

\* String.prototype.includes
Includes(str, search) ==
    \E start \in 0..(Len(str) - Len(search)) :
        SubSeq(str, start + 1, start + Len(search)) = search

\* a filter that compares the label as written
LabelMatchesAsWritten(item, query) == Includes(item.label, query)

\* item.label.toLowerCase().includes(query.toLowerCase())
LabelMatches(item, query) ==
    Includes(ToLowerCase(item.label), ToLowerCase(query))

\* the `items` option: BLOCK_TYPES.filter(...), a new array
SuggestionItems(catalog, query) ==
    SelectSeq(catalog, LAMBDA item : LabelMatches(item, query))

\* NaN, which `%` yields for an empty list
NaN == -1

\* (selectedIndex - 1 + items.length) % items.length, and an ArrowUp that
\* stops at the first item
SelectedAfterArrowUpClamped(i, n) ==
    IF i = NaN \/ n = 0 THEN NaN ELSE IF i = 0 THEN 0 ELSE i - 1
SelectedAfterArrowUp(i, n) ==
    IF i = NaN \/ n = 0 THEN NaN ELSE (i - 1 + n) % n

\* (selectedIndex + 1) % items.length
\* an ArrowDown that runs past the end of the list
SelectedAfterArrowDownUnbounded(i, n) ==
    IF i = NaN \/ n = 0 THEN NaN ELSE i + 1

SelectedAfterArrowDown(i, n) ==
    IF i = NaN \/ n = 0 THEN NaN ELSE (i + 1) % n

\* what a handler of the slash command leaves alone
outsideSlash == <<kind, isConnected, hasUpdated, updatePending, editorContext,
                  provided, updateFrame, pendingFrames, nextFrameId,
                  lastUpdateTime, now, layoutVisible, thrown, engineViewVars,
                  derivedVars, linkHref, promptVars, fm, hd, root>>

\* renderPopup(props): nothing without a popup; else the template is rendered
\* into it, which assigns a new items array to the SlashMenu
RenderPopup(s, query) ==
    IF ~s.popup THEN s
    ELSE [s EXCEPT !.items = SuggestionItems(s.catalog, query),
                   !.itemsChanged = TRUE,
                   !.component = TRUE]

\* onExit
SlashExited(s) ==
    [s EXCEPT !.active = FALSE, !.query = <<>>, !.popup = FALSE,
              !.component = FALSE, !.items = <<>>, !.itemsChanged = FALSE,
              !.selectedIndex = 0, !.escaped = FALSE, !.handled = FALSE]

\* the event turn of a key or pointer event of a session: pending Lit updates
\* of the SlashMenu have run
SlashEventTurn == sl.active /\ ~sl.itemsChanged

\* onStart: the user typed "/" at the start of a line
SlashOnStart ==
    /\ ~sl.active
    /\ sl' = RenderPopup([sl EXCEPT !.active = TRUE, !.query = <<>>,
                                    !.popup = TRUE, !.selectedIndex = 0,
                                    !.escaped = FALSE, !.handled = FALSE], <<>>)
    /\ lastOp' = "slash.onStart"
    /\ UNCHANGED <<cmdLog, outsideSlash>>

\* onUpdate: the query changed by one character typed or deleted
SlashOnUpdate(query) ==
    /\ SlashEventTurn
    /\ Len(query) <= MaxQueryLen
    /\ \/ \E c \in QueryChars : query = Append(sl.query, c)
       \/ sl.query # <<>> /\ query = SubSeq(sl.query, 1, Len(sl.query) - 1)
    /\ sl' = RenderPopup([sl EXCEPT !.query = query], query)
    /\ lastOp' = "slash.onUpdate"
    /\ UNCHANGED <<cmdLog, outsideSlash>>

\* SlashMenu.updated(changedProperties) with `items` changed
SlashMenuUpdated ==
    /\ sl.itemsChanged
    /\ sl' = [sl EXCEPT !.selectedIndex = 0, !.itemsChanged = FALSE]
    /\ lastOp' = "slashMenu.updated"
    /\ UNCHANGED <<cmdLog, outsideSlash>>

\* SlashMenu._selectItem(index): an item at that index is dispatched as
\* item-selected, the listener runs props.command(item); the chain deletes the
\* "/query" range, which ends the session (onExit)
SlashSelectItem(index) ==
    IF index # NaN /\ index < Len(sl.items)
    THEN /\ cmdLog' = Append(cmdLog, sl.items[index + 1].command)
         /\ Len(cmdLog') <= MaxCommands
         /\ sl' = [SlashExited(sl) EXCEPT !.handled = TRUE]
    ELSE /\ sl' = [sl EXCEPT !.handled = TRUE]
         /\ UNCHANGED cmdLog

SlashKeys == {"Escape", "ArrowUp", "ArrowDown", "Enter", "Tab"}
SlashKeyOp(key) == "slash.key:" \o key

\* onKeyDown of the renderer, and SlashMenu.onKeyDown behind it
SlashOnKeyDown(key) ==
    /\ SlashEventTurn
    /\ lastOp' = SlashKeyOp(key)
    /\ UNCHANGED outsideSlash
    /\ LET n == Len(sl.items) IN
       IF key = "Escape"
       THEN /\ sl' = [sl EXCEPT !.popup = FALSE, !.escaped = TRUE,
                                !.handled = TRUE]
            /\ UNCHANGED cmdLog
       ELSE IF ~sl.component
       THEN /\ sl' = [sl EXCEPT !.handled = FALSE]
            /\ UNCHANGED cmdLog
       ELSE IF key = "ArrowUp"
       THEN /\ sl' = [sl EXCEPT
                        !.selectedIndex = SelectedAfterArrowUp(sl.selectedIndex, n),
                        !.handled = TRUE]
            /\ UNCHANGED cmdLog
       ELSE IF key = "ArrowDown"
       THEN /\ sl' = [sl EXCEPT
                        !.selectedIndex = SelectedAfterArrowDown(sl.selectedIndex, n),
                        !.handled = TRUE]
            /\ UNCHANGED cmdLog
       ELSE IF key = "Enter"
       THEN SlashSelectItem(sl.selectedIndex)
       ELSE /\ sl' = [sl EXCEPT !.handled = FALSE]
            /\ UNCHANGED cmdLog

\* the pointer enters an item of the attached popup: _hoverItem(index)
SlashHoverItem(index) ==
    /\ SlashEventTurn
    /\ sl.popup /\ sl.component
    /\ index < Len(sl.items)
    /\ sl' = [sl EXCEPT !.selectedIndex = index]
    /\ lastOp' = "slashMenu.hover"
    /\ UNCHANGED <<cmdLog, outsideSlash>>

\* a click on an item of the attached popup: _selectItem(index)
SlashClickItem(index) ==
    /\ SlashEventTurn
    /\ sl.popup /\ sl.component
    /\ index < Len(sl.items)
    /\ SlashSelectItem(index)
    /\ lastOp' = "slashMenu.click"
    /\ UNCHANGED outsideSlash

\* onExit: the cursor left the "/query" range
SlashOnExit ==
    /\ sl.active
    /\ sl' = SlashExited(sl)
    /\ lastOp' = "slash.onExit"
    /\ UNCHANGED <<cmdLog, outsideSlash>>

InitSlash ==
    /\ kind = "bubble"
    /\ isConnected = FALSE
    /\ hasUpdated = FALSE
    /\ updatePending = FALSE
    /\ editorContext = NoContext
    /\ provided = NoContext
    /\ updateFrame = NoFrame
    /\ pendingFrames = {}
    /\ nextFrameId = 1
    /\ lastUpdateTime = InitialLastUpdateTime
    /\ now = StartClock
    /\ layoutVisible = FALSE
    /\ thrown = FALSE
    /\ lastOp = "constructor"
    /\ InitRootIdle
    /\ active = {}
    /\ dom = [chain |-> <<"P">>, rowIndex |-> 0, cellIndex |-> 0]
    /\ InitMenuState
    /\ InitCommands
    /\ InitPrompt

NextSlash ==
    \/ SlashOnStart
    \/ \E query \in UNION {[1..m -> QueryChars] : m \in 0..MaxQueryLen} :
          SlashOnUpdate(query)
    \/ SlashMenuUpdated
    \/ \E key \in SlashKeys : SlashOnKeyDown(key)
    \/ \E index \in 0..(Len(BLOCK_TYPES) - 1) : SlashHoverItem(index)
    \/ \E index \in 0..(Len(BLOCK_TYPES) - 1) : SlashClickItem(index)
    \/ SlashOnExit

SpecSlash == InitSlash /\ [][NextSlash]_vars

(***************************************************************************)
(* The slash command's claims                                              *)
(***************************************************************************)
\* two characters are the same letter when they are equal or are the upper
\* and the lower case of one letter
SameLetter(a, b) ==
    \/ a = b
    \/ \E i \in 1..Len(UpperCase) : {a, b} = {UpperCase[i], LowerCase[i]}

\* label contains q, letter case ignored
ContainsIgnoringCase(label, q) ==
    \E start \in 0..(Len(label) - Len(q)) :
        \A j \in 1..Len(q) : SameLetter(label[start + j], q[j])

\* items is the catalog's entries whose label contains q, in catalog order
IsMatchingSubsequence(items, q) ==
    LET idx == {i \in 1..Len(BLOCK_TYPES) :
                   ContainsIgnoringCase(BLOCK_TYPES[i].label, q)}
    IN /\ Len(items) = Cardinality(idx)
       /\ \A k \in 1..Len(items) :
             \E i \in idx : /\ items[k] = BLOCK_TYPES[i]
                            /\ Cardinality({j \in idx : j < i}) = k - 1

\* C14: while the slash popup exists, its item list is exactly the catalog's
\* items whose label contains the query with letter case ignored, in catalog
\* order; the empty query lists the whole catalog; the catalog is never
\* changed.
C14_ItemsAreTheMatchingSubsequence ==
    /\ sl.catalog = BLOCK_TYPES
    /\ sl.popup =>
          /\ IsMatchingSubsequence(sl.items, sl.query)
          /\ sl.query = <<>> => sl.items = BLOCK_TYPES

\* the query "hE" lists Heading 1 to Heading 6
C14_Witness ==
    /\ sl.popup
    /\ sl.query = <<"h", "E">>
    /\ Len(sl.items) = 6
    /\ \A k \in 1..6 : sl.items[k].label = HeadingLabel(k)

\* C16: once Escape was pressed in a suggestion session, the popup is removed
\* and, as long as that session lasts, no step applies an item or brings the
\* popup back.
C16_EscapeEndsThePopupAndAppliesNothing ==
    [][/\ lastOp' = SlashKeyOp("Escape") => (~sl'.popup /\ cmdLog' = cmdLog)
       /\ (sl.active /\ sl.escaped) => (~sl'.popup /\ cmdLog' = cmdLog)]_vars

\* C17: with n >= 1 listed items and the selected index i, i is one of
\* 0..n-1, ArrowDown selects (i + 1) mod n and ArrowUp (i - 1) mod n; both
\* keys are reported as handled and apply nothing.
C17_ArrowKeysWrap ==
    [][\A key \in {"ArrowDown", "ArrowUp"} :
          (lastOp' = SlashKeyOp(key) /\ sl.items # <<>>) =>
             LET n == Len(sl.items)
                 i == sl.selectedIndex
             IN /\ i \in 0..(n - 1)
                /\ sl'.selectedIndex =
                      IF key = "ArrowDown"
                      THEN (IF i = n - 1 THEN 0 ELSE i + 1)
                      ELSE (IF i = 0 THEN n - 1 ELSE i - 1)
                /\ sl'.handled
                /\ sl'.items = sl.items
                /\ cmdLog' = cmdLog]_vars

\* ArrowUp on the first of several items has selected the last one
C17_Witness ==
    /\ lastOp = SlashKeyOp("ArrowUp")
    /\ Len(sl.items) = 6
    /\ sl.selectedIndex = 5
    /\ sl.handled
    /\ cmdLog = <<>>

(***************************************************************************)
(* The prompt dialog singleton                                             *)
(***************************************************************************)
\* C18: over any sequence of showPrompt calls one prompt dialog element is
\* created and appended, by the first call; it is the singleton every later
\* call uses, so an open prompt dialog is that one element.
C18_OnePromptDialogElement ==
    /\ dialogsAppended = IF requests = <<>> THEN 0 ELSE 1
    /\ dialogInstance <=> requests # <<>>
    /\ dialogOpen => dialogsAppended = 1

\* a second showPrompt call was made and the dialog is open
C18_Witness ==
    /\ Len(requests) >= 2
    /\ dialogsAppended = 1
    /\ dialogOpen

\* C19: a delivered 'close' event resolves a pending request only if the user
\* caused that event after the request was opened; the 'close' event queued
\* by finishing a request changes no request and leaves the dialog's open
\* flag as it is.
C19_CloseEventResolvesOnlyItsOwnRequest ==
    [][(lastOp' = "close" /\ closeEvents' < closeEvents) =>
          /\ pd.resolve # NoRequest =>
                (pd.closeBy = "user" /\ pd.resolve <= pd.closeAfter)
          /\ pd.closeBy = "finish" =>
                (requests' = requests /\ pd'.open = pd.open)]_vars

(***************************************************************************)
(* The refresh loop together with the toolbar's buttons                    *)
(***************************************************************************)
\* the buttons clicked here: one that leaves the derived state as it is and one
\* that changes it; neither opens a prompt
ToolbarToggles == {"bold", "bulletList"}

NextThrottle ==
    \/ NextLoop
    \/ \E cmd \in ToolbarToggles : BubbleHandleClick(cmd)

SpecThrottle == InitLoop /\ [][NextThrottle]_vars

\* C20 as stated: any two consecutive recomputations of a menu's derived
\* state are at least 50 ms apart, whatever made them.
C20_RecomputationsThrottled ==
    recomputed.prev # NotYet => recomputed.at - recomputed.prev >= updateThrottle

\* C20: any two consecutive recomputations made by a menu's refresh loop are
\* at least 50 ms apart, over every interleaving of frame callbacks, loop
\* restarts and toolbar clicks.
C20_LoopRecomputationsThrottled ==
    recomputed.loopPrev # NotYet =>
        recomputed.loopAt - recomputed.loopPrev >= updateThrottle

\* the loop has recomputed twice, and a click recomputed in between
C20_Witness ==
    /\ lastOp = "updateLoop"
    /\ recomputed.loopPrev # NotYet
    /\ recomputed.at = recomputed.loopAt
    /\ recomputed.prev > recomputed.loopPrev
    /\ cmdLog # <<>>

(***************************************************************************)
(* The refresh loop on a hidden component                                  *)
(***************************************************************************)
\* a frame callback of the refresh loop runs
LoopTick ==
    /\ lastOp' = "updateLoop"
    /\ pendingFrames' # pendingFrames

\* the tick recomputes nothing and requests no re-render
RefreshesNothing ==
    /\ bm' = bm /\ tc' = tc
    /\ recomputed' = recomputed
    /\ lastUpdateTime' = lastUpdateTime
    /\ updatePending' = updatePending

\* C21 for all three loops: a tick on a component that is detached or hidden
\* recomputes nothing and requests no re-render.
C21_HiddenTickRefreshesNothing ==
    [][(LoopTick /\ ~(isConnected /\ layoutVisible)) => RefreshesNothing]_vars

\* C21: a tick of the bubble menu's or the table bubble menu's loop recomputes
\* derived state or requests a re-render only if the component is attached
\* and visible; a tick of the table controls' loop only if the component is
\* attached, whether visible or not.
C21_HiddenTickRefreshesOnlyTableControls ==
    [][(LoopTick /\ ~(isConnected /\ (layoutVisible \/ kind = "tableControls")))
          => RefreshesNothing]_vars

\* a tick ran on an attached, hidden bubble menu whose interval had elapsed,
\* and nothing was recomputed
C21_Witness ==
    /\ lastOp = "updateLoop"
    /\ kind = "bubble"
    /\ isConnected /\ ~layoutVisible
    /\ editorContext.editor # NoEditor
    /\ updateFrame # NoFrame
    /\ Due(now, lastUpdateTime)
    /\ recomputed = NeverRecomputed
    /\ ~updatePending

(***************************************************************************)
(* What the bubble menu renders                                            *)
(***************************************************************************)
\* BubbleMenu._isCommandActive: read from the engine when render() runs
IsCommandActive(editor, act, command) ==
    /\ editor # NoEditor
    /\ command \in {"bold", "italic", "bulletList", "orderedList"}
    /\ IsActive(act, command)

\* BubbleMenu.render: the is-active class of four buttons comes from
\* _isCommandActive, the show class of the list and heading controls from the
\* stored @state fields
BubbleRender(editor, act, b) ==
    [bold |-> IsCommandActive(editor, act, "bold"),
     italic |-> IsCommandActive(editor, act, "italic"),
     bulletList |-> IsCommandActive(editor, act, "bulletList"),
     orderedList |-> IsCommandActive(editor, act, "orderedList"),
     showOnList |-> b.isInList,
     showOnHeading |-> b.isInHeading]

\* the names the engine can report as active to the bubble menu
BubbleNames == {"bold", "italic", "bulletList", "orderedList", "heading"}

\* a rendering whose values all come from one engine state
FromOneRead(r) ==
    \E a \in SUBSET BubbleNames :
        r = [bold |-> "bold" \in a,
             italic |-> "italic" \in a,
             bulletList |-> "bulletList" \in a,
             orderedList |-> "orderedList" \in a,
             showOnList |-> ("bulletList" \in a \/ "orderedList" \in a),
             showOnHeading |-> "heading" \in a]

\* the Lit update of the component runs: render(), then updated()
RenderStep ==
    /\ lastOp' = "updated"
    /\ updatePending /\ ~updatePending'

\* C22: every render of a bubble menu that holds an engine shows values that
\* all come from one engine state: the buttons' active flags and the
\* isInList / isInHeading flags never disagree.
C22_RenderShowsOneEngineState ==
    [][(RenderStep /\ kind = "bubble" /\ editorContext.editor # NoEditor) =>
          FromOneRead(BubbleRender(editorContext.editor, active, bm))]_vars

(***************************************************************************)
(* The table controls outside a table                                      *)
(***************************************************************************)
\* the ancestors of the selection's DOM node hold a cell below their first
\* TABLE element
CellInTable(chain) ==
    \E i \in DOMAIN chain :
        /\ chain[i] = "TABLE"
        /\ \A k \in 1..(i - 1) : chain[k] # "TABLE"
        /\ \E j \in 1..(i - 1) : chain[j] \in {"TD", "TH"}

\* a refresh finds the selection outside a table: the engine or the root
\* element is missing, the engine reports no active table, or the ancestor
\* walk finds no cell or no table
OutsideTable ==
    \/ editorContext.editor = NoEditor
    \/ ~editorContext.editorElement
    \/ ~IsActive(active, "table")
    \/ ~CellInTable(dom.chain)

\* C23: after a table-controls refresh that finds the selection outside a
\* table, isInTable is false, nothing is rendered and the column and the row
\* dropdown are both closed.
C23_OutsideTableHidesAndClosesDropdowns ==
    [][(MenuStep("tableControls.updatePosition") /\ OutsideTable) =>
          /\ ~tc'.isInTable
          /\ ~TableControlsShown(tc')
          /\ ~tc'.showColumnMenu /\ ~tc'.showRowMenu]_vars

(***************************************************************************)
(* The two table UIs: the table controls and the table bubble menu         *)
(***************************************************************************)
TableBubbleClickOp(cmd) == "tableBubble.click:" \o cmd

\* TableBubbleMenu._handleClick on the toolbar button with data-command cmd.
\* The listener is added in firstUpdated; every button of the toolbar is
\* rendered without a disabled attribute.
TableBubbleHandleClick(cmd) ==
    /\ Rendered("tableBubble")
    /\ lastOp' = TableBubbleClickOp(cmd)
    /\ IF editorContext.editor = NoEditor
       THEN UNCHANGED <<cmdLog, updatePending>>
       ELSE /\ cmdLog' = Append(cmdLog, Command(cmd, ""))
            /\ Len(cmdLog') <= MaxCommands
            /\ updatePending' = TRUE
    /\ UNCHANGED <<tc, fm, hd, bm, recomputed, thrown, outsideFloating>>

InitTables ==
    /\ InitMenus
    /\ kind \in {"tableControls", "tableBubble"}

NextTables ==
    \/ \E cmd \in TableCommands : TableControlsClickItem(cmd)
    \/ TableControlsUpdatePosition
    \/ \E which \in {"column", "row"} : TableControlsToggleMenu(which)
    \/ \E cmd \in TableCommands : TableBubbleHandleClick(cmd)
    \/ \E v \in ProvidedValues : ContextProvided(v)
    \/ \E e \in EngineViews : EngineChange(e)

SpecTables == InitTables /\ [][NextTables]_vars

\* the engine's current selection is in a cell of the first row of a table
SelectionInFirstRow ==
    IsActive(active, "table") /\ CellInTable(dom.chain) /\ dom.rowIndex = 0

\* this step hands toggleHeaderRow to the engine
IssuesToggleHeaderRow ==
    /\ cmdLog' # cmdLog
    /\ cmdLog'[Len(cmdLog')] = Command("toggleHeaderRow", "")

\* C24: in the table controls and in the table bubble menu, toggleHeaderRow
\* never reaches the engine while the selection is not in the first row of a
\* table.
C24_HeaderRowToggleOnlyInFirstRow ==
    [][IssuesToggleHeaderRow => SelectionInFirstRow]_vars

\* C25: whenever the table controls issue toggleHeaderRow, the engine's
\* current selection is in the first row of a table; and a refresh that finds
\* the selection outside a table does not leave isFirstRow true.
C25_FirstRowFlagIsNeverStale ==
    [][/\ (MenuStep(TableClickOp("toggleHeaderRow")) /\ IssuesToggleHeaderRow) =>
             SelectionInFirstRow
       /\ (MenuStep("tableControls.updatePosition") /\ OutsideTable) =>
             ~tc'.isFirstRow]_vars

(***************************************************************************)
(* The quiet periods of the root editor component                          *)
(***************************************************************************)
\* callback name cb is among the outstanding animation-frame callbacks of R
FramePending(R, cb) == \E i \in DOMAIN R.frames : R.frames[i] = cb

\* the quiet period of the latest engine creation: its delayed timer has not
\* fired yet (the timer is armed by the creation's animation-frame callback)
CreationWindowOpen(R) == FramePending(R, "setTimeout") \/ R.timers > 0

\* the quiet period of the latest content-property change: its own
\* animation-frame callback has not run yet
ContentWindowOpen(R) == FramePending(R, "clearInitializing")

\* C26: inside the quiet period of an engine creation or of a content-property
\* change the initializing flag stays set, and an engine update callback that
\* runs inside either period dispatches no content-changed event.
C26_QuietPeriodsAreIndependent ==
    [][/\ (CreationWindowOpen(root') \/ ContentWindowOpen(root')) =>
            root'.isInitializing
       /\ (lastOp' = "onUpdate"
           /\ (CreationWindowOpen(root) \/ ContentWindowOpen(root))) =>
            root'.dispatched = <<>>]_vars

(***************************************************************************)
(* The engines of the root editor component                                *)
(***************************************************************************)
\* C27: every live engine the root ever created is the one it holds, so at
\* most one engine is live; and a step creates an engine only when the root
\* holds none.
C27_AtMostOneLiveEngine ==
    [][/\ \A e \in DOMAIN root'.engines :
             root'.engines[e].live => root'.editor = e
       /\ Len(root'.engines) > Len(root.engines) =>
             /\ root.editor = NoEditor
             /\ Len(root'.engines) = Len(root.engines) + 1]_vars

\* after a detach and a re-attach the root holds its second engine and the
\* first one is destroyed
C27_Witness ==
    /\ Len(root.engines) = 2
    /\ root.isConnected
    /\ root.editor = 2
    /\ root.engines[2].live
    /\ ~root.engines[1].live

(***************************************************************************)
(* The link button of the bubble menu                                      *)
(***************************************************************************)
\* the OK button or the Enter key confirms the pending request of a click on
\* the link button
ConfirmsLinkPrompt ==
    /\ lastOp' \in {"ok", "key:Enter"}
    /\ pd.resolve # NoRequest
    /\ requests[pd.resolve].then = "link"

\* what the claim expects of a confirmation with input u when the link button
\* was clicked with current URL c
LinkCommandsExpected(c, u) ==
    IF u # "" THEN <<Command("setLink", u)>>
    ELSE IF c # "" THEN <<Command("unsetLink", "")>>
    ELSE <<>>

\* C28: confirming the prompt of a link click issues exactly the set-link
\* command with the confirmed value, or the unset-link command when the value
\* is empty and the click found a link, or nothing when both are empty.
C28_ConfirmedLinkPromptIssuesOneCommand ==
    [][ConfirmsLinkPrompt =>
          cmdLog' = cmdLog \o LinkCommandsExpected(requests[pd.resolve].currentUrl,
                                                   pd.inputValue)]_vars

\* C28, amended: the same, provided the bubble menu still has the engine when
\* the prompt is confirmed; without an engine the confirmation issues nothing.
C28_ConfirmedLinkPromptIssuesOneCommandWithEngine ==
    [][ConfirmsLinkPrompt =>
          cmdLog' = IF editorContext.editor = NoEditor THEN cmdLog
                    ELSE cmdLog \o LinkCommandsExpected(
                                       requests[pd.resolve].currentUrl,
                                       pd.inputValue)]_vars

\* a link prompt was confirmed with a URL after the bubble menu lost its
\* engine: nothing was issued
C28_Witness ==
    /\ lastOp = "ok"
    /\ editorContext.editor = NoEditor
    /\ cmdLog = <<>>
    /\ \E r \in DOMAIN requests :
          requests[r].then = "link" /\ requests[r].result \in Urls

(***************************************************************************)
(* The prompt dialog built on vaadin-dialog                                *)
(***************************************************************************)
\* listeners that one click or key press can reach: the delegating listener
\* on the renderer root and the listeners the renderer's timeout adds to the
\* buttons and to the input element
MaxListeners == 2

\* _handleConfirm: the dialog element after the handler
VaadinHandleConfirmKeepsResolver(p) ==
    IF p.resolve # NoRequest
    THEN [p EXCEPT !.inputValue = p.tempInputValue, !.open = FALSE]
    ELSE [p EXCEPT !.open = FALSE]

VaadinHandleConfirm(p) ==
    IF p.resolve # NoRequest
    THEN [p EXCEPT !.inputValue = p.tempInputValue, !.resolve = NoRequest,
                   !.open = FALSE]
    ELSE [p EXCEPT !.open = FALSE]

\* _handleCancel: the dialog element after the handler
VaadinHandleCancel(p) ==
    IF p.resolve # NoRequest
    THEN [p EXCEPT !.tempInputValue = p.defaultValue,
                   !.inputValue = p.defaultValue, !.resolve = NoRequest,
                   !.open = FALSE]
    ELSE [p EXCEPT !.open = FALSE]

\* assignments to the @state fields request an update
VaadinStateAssigned(old, new) ==
    [new EXCEPT !.updatePending =
        (old.updatePending
         \/ <<old.open, old.message, old.defaultValue, old.inputValue,
              old.tempInputValue>>
             # <<new.open, new.message, new.defaultValue, new.inputValue,
                 new.tempInputValue>>)]

vaadinUnchanged == <<typed, closeEvents, active, bm, recomputed, updatePending,
                     editorContext, outsidePrompt>>

\* showPrompt(message, defaultValue) of the vaadin variant; it can run in the
\* microtask of an earlier resolution, between two listeners of one event
VaadinShowPrompt(message, defaultValue) ==
    /\ pd.variant = "vaadin"
    /\ Len(requests) < MaxRequests
    /\ dialogInstance' = TRUE
    /\ dialogsAppended' = ShowPromptAppended(dialogInstance, dialogsAppended)
    /\ requests' = Append(requests,
                          [message |-> message, defaultValue |-> defaultValue,
                           then |-> "host", currentUrl |-> "",
                           result |-> Unresolved])
    /\ pd' = [pd EXCEPT !.message = message, !.defaultValue = defaultValue,
                        !.inputValue = defaultValue,
                        !.tempInputValue = defaultValue,
                        !.resolve = Len(requests) + 1, !.open = TRUE,
                        !.updatePending = TRUE]
    /\ lastOp' = "vaadin.showPrompt"
    /\ UNCHANGED <<dialogOpen, cmdLog, linkHref, vaadinUnchanged>>

\* a handler of the vaadin variant that resolves with value (when a request
\* is pending) and leaves the element as P
VaadinHandled(value, P) ==
    /\ ResolveWith(value)
    /\ pd' = VaadinStateAssigned(pd, P)

\* the opened-changed listener of render(), called with detail.value
VaadinOpenedChanged(opened, P) ==
    IF ~opened /\ P.resolve # NoRequest
    THEN VaadinHandled(NullResult, VaadinHandleCancel(P))
    ELSE /\ pd' = P
         /\ UNCHANGED <<requests, cmdLog, linkHref>>

\* a Lit update of the dialog element: .opened follows _open, and the dialog
\* reports a change of opened
VaadinPerformUpdate ==
    /\ pd.variant = "vaadin"
    /\ pd.updatePending
    /\ dialogOpen' = pd.open
    /\ LET P == [pd EXCEPT !.updatePending = FALSE]
       IN  IF dialogOpen' # dialogOpen
           THEN VaadinOpenedChanged(dialogOpen', P)
           ELSE /\ pd' = P
                /\ UNCHANGED <<requests, cmdLog, linkHref>>
    /\ lastOp' = "vaadin.updated"
    /\ UNCHANGED <<dialogInstance, dialogsAppended, vaadinUnchanged>>

\* value-changed of the text field
VaadinValueChanged(v) ==
    /\ pd.variant = "vaadin"
    /\ dialogOpen /\ pd.handlers = <<>>
    /\ pd' = VaadinStateAssigned(pd, [pd EXCEPT !.tempInputValue = v])
    /\ lastOp' = "vaadin.input"
    /\ UNCHANGED <<dialogInstance, dialogsAppended, dialogOpen, requests, cmdLog,
                   linkHref, vaadinUnchanged>>

VaadinUserActions == {"ok", "cancel", "Enter", "Escape"}

\* the listeners one user action reaches, in order: n copies of the confirm
\* or cancel handler, and for Escape the dialog closing itself when closes is
\* set (noCloseOnEsc is false)
VaadinListeners(action, n, closes) ==
    LET h == IF action \in {"ok", "Enter"} THEN "confirm" ELSE "cancel"
    IN  [i \in 1..n |-> h] \o
        (IF action = "Escape" /\ closes THEN <<"closed">> ELSE <<>>)

\* the user clicks a button or presses a key in the open dialog
VaadinUserAction(action) ==
    /\ pd.variant = "vaadin"
    /\ dialogOpen /\ pd.handlers = <<>>
    /\ \E n \in 1..MaxListeners, closes \in BOOLEAN :
          pd' = [pd EXCEPT !.handlers = VaadinListeners(action, n, closes)]
    /\ lastOp' = "vaadin.action:" \o action
    /\ UNCHANGED <<dialogInstance, dialogsAppended, dialogOpen, requests, cmdLog,
                   linkHref, vaadinUnchanged>>

\* the next listener of the event being dispatched runs
VaadinRunHandler ==
    /\ pd.variant = "vaadin"
    /\ pd.handlers # <<>>
    /\ LET h == Head(pd.handlers)
           P == [pd EXCEPT !.handlers = Tail(@)]
       IN  IF h = "confirm"
           THEN /\ VaadinHandled(OrNull(pd.tempInputValue), VaadinHandleConfirm(P))
                /\ UNCHANGED dialogOpen
           ELSE IF h = "cancel"
           THEN /\ VaadinHandled(NullResult, VaadinHandleCancel(P))
                /\ UNCHANGED dialogOpen
           ELSE /\ dialogOpen' = FALSE
                /\ IF dialogOpen THEN VaadinOpenedChanged(FALSE, P)
                   ELSE /\ pd' = P
                        /\ UNCHANGED <<requests, cmdLog, linkHref>>
    /\ lastOp' = "vaadin.handler"
    /\ UNCHANGED <<dialogInstance, dialogsAppended, vaadinUnchanged>>

NextVaadin ==
    \/ \E m \in PromptMessages, d \in PromptDefaults : VaadinShowPrompt(m, d)
    \/ VaadinPerformUpdate
    \/ \E v \in InputValues : VaadinValueChanged(v)
    \/ \E a \in VaadinUserActions : VaadinUserAction(a)
    \/ VaadinRunHandler

(***************************************************************************)
(* Specification of both prompt dialogs                                    *)
(***************************************************************************)
InitPromptVariants ==
    /\ BubbleMenuReady
    /\ InitRootIdle
    /\ InitCommands
    /\ dialogInstance = FALSE
    /\ dialogsAppended = 0
    /\ pd \in {NewPromptDialog("native"), NewPromptDialog("vaadin")}
    /\ dialogOpen = FALSE
    /\ closeEvents = 0
    /\ requests = <<>>
    /\ typed = NothingTyped

NextPromptVariants ==
    \/ NextPrompt
    \/ NextVaadin

SpecPromptVariants == InitPromptVariants /\ [][NextPromptVariants]_vars

\* C29: a request that has a result keeps it; a step taken while no request
\* is pending gives no request a result; and the resolver a dialog holds
\* always belongs to a request without a result, so no resolver is called
\* twice.
C29_ResolvedAtMostOnce ==
    [][/\ \A r \in DOMAIN requests :
             requests[r].result # Unresolved =>
                 requests'[r].result = requests[r].result
       /\ pd.resolve = NoRequest =>
             \A r \in DOMAIN requests : requests'[r].result = requests[r].result
       /\ pd'.resolve # NoRequest =>
             requests'[pd'.resolve].result = Unresolved]_vars

\* the first of two listeners of one click has resolved the request and the
\* second is still to run
C29_Witness ==
    /\ pd.variant = "vaadin"
    /\ lastOp = "vaadin.handler"
    /\ pd.handlers # <<>>
    /\ pd.resolve = NoRequest
    /\ \E r \in DOMAIN requests : requests[r].result # Unresolved

(***************************************************************************)
(* The selected index of the slash menu                                    *)
(***************************************************************************)
\* the slash menu element exists and its last update has run
SlashMenuSettled(s) == s.component /\ ~s.itemsChanged

\* Enter dispatched item-selected in this step: the item's command was run
EnterDispatches == lastOp' = SlashKeyOp("Enter") /\ cmdLog' # cmdLog

\* the dispatched item is the one at selectedIndex of the current list
DispatchedItemIsInList ==
    /\ sl.selectedIndex \in 0..(Len(sl.items) - 1)
    /\ cmdLog' = Append(cmdLog, sl.items[sl.selectedIndex + 1].command)

\* C30: selectedIndex is an index of the list when the list is non-empty and
\* 0 when it is empty; Enter dispatches item-selected only for an item of the
\* current list.
C30_SelectedIndexInRange ==
    [][/\ SlashMenuSettled(sl') =>
            IF sl'.items # <<>>
            THEN sl'.selectedIndex \in 0..(Len(sl'.items) - 1)
            ELSE sl'.selectedIndex = 0
       /\ EnterDispatches => DispatchedItemIsInList]_vars

\* C30, amended: with an empty list selectedIndex is 0, or NaN once an arrow
\* key was pressed on the empty list.
C30_SelectedIndexInRangeOrNaN ==
    [][/\ SlashMenuSettled(sl') =>
            IF sl'.items # <<>>
            THEN sl'.selectedIndex \in 0..(Len(sl'.items) - 1)
            ELSE sl'.selectedIndex \in {0, NaN}
       /\ (sl'.selectedIndex = NaN /\ sl.selectedIndex # NaN) =>
            /\ lastOp' \in {SlashKeyOp("ArrowUp"), SlashKeyOp("ArrowDown")}
            /\ sl.items = <<>>
       /\ EnterDispatches => DispatchedItemIsInList]_vars

\* an arrow key was pressed while the menu showed no matching block
C30_Witness ==
    /\ lastOp = SlashKeyOp("ArrowDown")
    /\ sl.component /\ sl.popup
    /\ sl.items = <<>>
    /\ sl.selectedIndex = NaN

====
